---- MODULE Spec2Model ----
(***************************************************************************)
(* Model of the EDX ingest path (packages/compilers/compile_edx.py) and of *)
(* the HDF5 query path (packages/readers/read_hdf5.py).                    *)
(*                                                                         *)
(* Text is a sequence of one-character strings, so that splitting,         *)
(* parsing and formatting are computed and not assumed.  Real numbers are  *)
(* fixed-point integers counting hundredths (Scale = 100): 0.42 is 42 and  *)
(* 42.0 is 4200.                                                           *)
(***************************************************************************)
EXTENDS Integers, Sequences, FiniteSets, TLC

VARIABLES
    scan_arg,          \* argument of the last get_scan_numbers call
    scan_ret,          \* what that call returned or raised
    wafer_cfg,         \* step and start arguments of the get_wafer_positions calls
    wafer_calls,       \* the calls of get_wafer_positions made so far, newest last
    default_edx_dict,  \* the dict object that is visit_items' default argument
    visit_item,        \* element passed to the last visit_items call
    visit_ret,         \* what that call returned or raised
    visit_explicit,    \* whether that call passed its own accumulator
    visit_calls,       \* number of visit_items calls made
    energy_call,       \* the make_energy_dataset call: arguments and result
    store,             \* content of the HDF5 file
    ingest,            \* the last write_edx_to_hdf5 call and how it ended
    ingest_count,      \* number of write_edx_to_hdf5 calls made
    positions_call,    \* the get_all_positions call made on the store as it is
    full_call,         \* the get_full_dataset call: argument and result
    measurement_call,  \* the get_measurement_data call: arguments and result
    query_call,        \* the make_group_path or get_position_units call made
    simplified_call,   \* the create_simplified_dataset call and how it ended
    save_store         \* content of the file create_simplified_dataset writes

geom_vars == <<scan_arg, scan_ret, wafer_cfg, wafer_calls>>
visit_vars == <<default_edx_dict, visit_item, visit_ret, visit_explicit, visit_calls>>

ingest_vars == <<energy_call, store, ingest, ingest_count, positions_call>>

grid_vars == <<full_call, measurement_call>>

query_vars == <<query_call, simplified_call, save_store>>

vars == <<geom_vars, visit_vars, ingest_vars, grid_vars, query_vars>>

\* ------------------------------------------------------------------ bounds

\* scan indices embedded in generated filenames range over -MaxIdx..MaxIdx
MaxIdx == 3

\* get_wafer_positions is called with indices 1..MaxWaferIdx
MaxWaferIdx == 3

\* an element handed to the normalizer has at most MaxKids children
MaxKids == 2

\* the normalizer is called at most MaxVisitCalls times in one process
MaxVisitCalls == 2

\* a spectrum has at most MaxChannels channels
MaxChannels == 7

\* at most MaxIngests files are ingested in one process
MaxIngests == 2

\* at most MaxQueryCalls calls of the query path are made on one store
MaxQueryCalls == 1

\* ------------------------------------------------------------------- text

DigitChar == <<"0", "1", "2", "3", "4", "5", "6", "7", "8", "9">>

Digits == {DigitChar[i] : i \in 1..10}

DigitVal(c) == (CHOOSE i \in 1..10 : DigitChar[i] = c) - 1

RECURSIVE NatToStr(_)
NatToStr(n) ==
    IF n < 10 THEN <<DigitChar[n + 1]>>
    ELSE NatToStr(n \div 10) \o <<DigitChar[(n % 10) + 1]>>

\* Python's str(n) of an int, as f"({x},{y})" formats it
PyStr(n) == IF n < 0 THEN <<"-">> \o NatToStr(-n) ELSE NatToStr(n)

IsMatchAt(s, sep, i) ==
    /\ i + Len(sep) - 1 <= Len(s)
    /\ SubSeq(s, i, i + Len(sep) - 1) = sep

RECURSIVE SplitFrom(_, _, _, _)
SplitFrom(s, sep, i, cur) ==
    IF i > Len(s) THEN <<cur>>
    ELSE IF IsMatchAt(s, sep, i)
         THEN <<cur>> \o SplitFrom(s, sep, i + Len(sep), <<>>)
         ELSE SplitFrom(s, sep, i + 1, Append(cur, s[i]))

\* Python's s.split(sep): the pieces between the leftmost non-overlapping
\* occurrences of sep, always at least one piece
PySplit(s, sep) == SplitFrom(s, sep, 1, <<>>)

First(q) == q[1]
Last(q) == q[Len(q)]

RECURSIVE StripLeft(_)
StripLeft(s) ==
    IF s # <<>> /\ s[1] = " " THEN StripLeft(Tail(s)) ELSE s

RECURSIVE StripRight(_)
StripRight(s) ==
    IF s # <<>> /\ s[Len(s)] = " " THEN StripRight(SubSeq(s, 1, Len(s) - 1)) ELSE s

PyStrip(s) == StripRight(StripLeft(s))

RECURSIVE DigitsToNat(_)
DigitsToNat(s) ==
    IF s = <<>> THEN 0
    ELSE DigitsToNat(SubSeq(s, 1, Len(s) - 1)) * 10 + DigitVal(s[Len(s)])

AllDigits(s) == s # <<>> /\ \A i \in 1..Len(s) : s[i] \in Digits

\* Python's int(s) on text: surrounding blanks stripped, an optional sign,
\* then decimal digits; anything else raises ValueError
PyInt(s) ==
    LET t    == PyStrip(s)
        sgn  == t # <<>> /\ t[1] \in {"-", "+"}
        body == IF sgn THEN Tail(t) ELSE t
    IN  IF AllDigits(body)
        THEN [ok |-> TRUE,
              v  |-> IF sgn /\ t[1] = "-" THEN -DigitsToNat(body) ELSE DigitsToNat(body)]
        ELSE [ok |-> FALSE, v |-> 0]

SpxExt == <<".", "s", "p", "x">>

\* ------------------------------------------------- get_scan_numbers

RECURSIVE DropDotAndEmpty(_)
DropDotAndEmpty(parts) ==
    IF parts = <<>> THEN <<>>
    ELSE IF parts[1] = <<>> \/ parts[1] = <<".">>
         THEN DropDotAndEmpty(Tail(parts))
         ELSE <<parts[1]>> \o DropDotAndEmpty(Tail(parts))

\* pathlib.Path(text).name: the last path component, "" when there is none
PathName(text) ==
    LET parts == DropDotAndEmpty(PySplit(text, <<"/">>))
    IN  IF parts = <<>> THEN <<>> ELSE Last(parts)

ScanOk(x, y) == [status |-> "ok", x |-> x, y |-> y]
ScanRaise(e) == [status |-> e, x |-> 0, y |-> 0]

get_scan_numbers(filepath) ==
    IF filepath.kind \notin {"str", "Path"} THEN ScanRaise("TypeError")
    ELSE
      LET filename == IF filepath.kind = "str"
                      THEN Last(PySplit(filepath.text, <<"/">>))
                      ELSE PathName(filepath.text)
          stem   == First(PySplit(filename, SpxExt))
          inner  == First(PySplit(Last(PySplit(stem, <<"(">>)), <<")">>))
          fields == PySplit(inner, <<",">>)
      IN  IF Len(fields) # 2 THEN ScanRaise("ValueError")
          ELSE LET xi == PyInt(fields[1])
                   yi == PyInt(fields[2])
               IN  IF xi.ok /\ yi.ok THEN ScanOk(xi.v, yi.v)
                   ELSE ScanRaise("ValueError")

\* the filenames the parser is applied to: a directory, a name prefix, a
\* body that does or does not hold the parenthesised pair, an extension
DirPrefixes ==
    { <<>>,
      <<"d", "/">>,
      <<"/", "r", "(", "9", ",", "9", ")", ".", "s", "p", "x", "/">> }

NamePrefixes ==
    { <<>>, <<"a", "_">>, <<"a", ".", "s", "p", "x">>, <<"(", "7", ")">> }

IdxRange == (-MaxIdx)..MaxIdx

PairText(x, y) == <<"(">> \o PyStr(x) \o <<",">> \o PyStr(y) \o <<")">>

Bodies(x, y) ==
    { PairText(x, y),                                       \* (x,y)
      PyStr(x) \o <<",">> \o PyStr(y),                      \* x,y
      PairText(x, y) \o <<"b">>,                            \* (x,y)b
      <<"(">> \o PyStr(x) \o <<")">>,                       \* (x)
      <<"(">> \o PyStr(x) \o <<",">> \o <<"b">> \o <<")">>, \* (x,b)
      <<"(">> \o PyStr(x) \o <<",">> \o PyStr(y) \o <<",">> \o PyStr(x) \o <<")">>,
      <<"b">> }

Extensions == { SpxExt, <<".", "t", "x", "t">>, <<>> }

ArgKinds == {"str", "Path", "other"}

\* one call per behaviour: the parser keeps no state between calls
GetScanNumbers ==
    /\ scan_arg.kind = "none"
    /\ \E k \in ArgKinds, d \in DirPrefixes, p \in NamePrefixes,
          x \in IdxRange, y \in IdxRange, e \in Extensions :
        \E b \in Bodies(x, y) :
          LET arg == [kind |-> k, text |-> d \o p \o b \o e]
          IN  /\ scan_arg' = arg
              /\ scan_ret' = get_scan_numbers(arg)
              /\ UNCHANGED <<query_vars, wafer_cfg, wafer_calls, visit_vars, ingest_vars, grid_vars>>

\* ------------------------------------------------ get_wafer_positions

DefaultStep == 5
DefaultStart == -40

\* the affine map with the index taken as 0-based
get_wafer_positions_zero_based(scan_numbers, step_x, step_y, start_x, start_y) ==
    <<scan_numbers[1] * step_x + start_x, scan_numbers[2] * step_y + start_y>>

get_wafer_positions(scan_numbers, step_x, step_y, start_x, start_y) ==
    LET x_idx == scan_numbers[1]
        y_idx == scan_numbers[2]
    IN  <<(x_idx - 1) * step_x + start_x, (y_idx - 1) * step_y + start_y>>

Steps == {-5, 0, DefaultStep}
Starts == {DefaultStart, 3}
WaferIdx == 1..MaxWaferIdx

\* the step and start arguments a caller passes, or "defaults" when it
\* passes none and the signature's defaults apply
WaferConfigs ==
    [step_x : Steps, step_y : Steps, start_x : Starts, start_y : Starts,
     defaults : {FALSE}]
    \cup {[step_x |-> DefaultStep, step_y |-> DefaultStep,
            start_x |-> DefaultStart, start_y |-> DefaultStart, defaults |-> TRUE]}

WaferCall(scan, cfg) ==
    [scan |-> scan,
     ret |-> get_wafer_positions(scan, cfg.step_x, cfg.step_y, cfg.start_x, cfg.start_y)]

\* two calls are kept, so that results can be compared across calls
GetWaferPositions ==
    /\ Len(wafer_calls) < 2
    /\ \E xi \in WaferIdx, yi \in WaferIdx :
          wafer_calls' = Append(wafer_calls, WaferCall(<<xi, yi>>, wafer_cfg))
    /\ UNCHANGED <<query_vars, scan_arg, scan_ret, wafer_cfg, visit_vars, ingest_vars, grid_vars>>

\* ------------------------------------------------------------ dicts

\* A Python dict: its items in insertion order, keys unique.
EmptyDict == <<>>

DictHas(d, k) == \E i \in 1..Len(d) : d[i].k = k

DictIndex(d, k) == CHOOSE i \in 1..Len(d) : d[i].k = k

DictGet(d, k) == d[DictIndex(d, k)].v

\* d[k] = v: a key already present keeps its place
DictSet(d, k, v) ==
    IF DictHas(d, k) THEN [d EXCEPT ![DictIndex(d, k)].v = v]
    ELSE Append(d, [k |-> k, v |-> v])

DictKeys(d) == {d[i].k : i \in 1..Len(d)}

\* ------------------------------------------------------- XML elements

\* The text of an element: Python's None for an element without text
NoText == [none |-> TRUE]
Text(s) == [text |-> s]

Elem(tag, attrib, text, children) ==
    [tag |-> tag, attrib |-> attrib, text |-> text, children |-> children]

Leaf(tag, s) == Elem(tag, EmptyDict, Text(s), <<>>)
Node(tag, attrib, children) == Elem(tag, attrib, NoText, children)

RECURSIVE Iter(_)
RECURSIVE IterAll(_)
\* Element.iter(): the element and its descendants in document order
Iter(item) == <<item>> \o IterAll(item.children)
IterAll(kids) == IF kids = <<>> THEN <<>> ELSE Iter(kids[1]) \o IterAll(Tail(kids))

T_ClassInstance == <<"C", "l", "a", "s", "s", "I", "n", "s", "t", "a", "n", "c", "e">>
T_PSEElement == <<"T", "R", "T", "P", "S", "E", "E", "l", "e", "m", "e", "n", "t">>
T_Result == <<"R", "e", "s", "u", "l", "t">>
T_ExtResults == <<"E", "x", "t", "R", "e", "s", "u", "l", "t", "s">>
T_Atom == <<"A", "t", "o", "m">>

parse_ignore ==
    { <<>>, <<"D", "e", "t", "L", "a", "y", "e", "r", "s">>, <<"S", "h", "i", "f", "t", "D", "a", "t", "a">>, <<"P", "P", "R", "T", "D", "a", "t", "a">>, <<"R", "e", "s", "p", "o", "n", "s", "e", "F", "u", "n", "c", "t", "i", "o", "n">>,
      <<"C", "h", "a", "n", "n", "e", "l", "s">>, <<"W", "i", "n", "d", "o", "w", "L", "a", "y", "e", "r", "s">> }

\* ---------------------------------------------------------- visit_items

Named(n) == [err |-> "", name |-> n]
NameRaise(e) == [err |-> e, name |-> <<>>]

\* lines 45-54: the key under which an element is filed
ParentName(item) ==
    IF item.tag = T_ClassInstance /\ ~DictHas(item.attrib, "Type")
    THEN NameRaise("KeyError")
    ELSE IF item.tag = T_ClassInstance /\ DictGet(item.attrib, "Type") = T_PSEElement
    THEN IF DictHas(item.attrib, "Name")
         THEN Named(DictGet(item.attrib, "Type") \o <<" ">> \o DictGet(item.attrib, "Name"))
         ELSE NameRaise("KeyError")
    ELSE IF item.tag = T_Result \/ item.tag = T_ExtResults
    THEN LET all   == Iter(item)
             atoms == {i \in 1..Len(all) : all[i].tag = T_Atom}
         IN  IF \E i \in atoms : all[i].text = NoText
             THEN NameRaise("TypeError")          \* str + None
             ELSE IF atoms = {}
             THEN NameRaise("UnboundLocalError")  \* parent_name never assigned
             ELSE Named(item.tag \o <<" ">>
                        \o all[CHOOSE i \in atoms : \A j \in atoms : j <= i].text.text)
    ELSE IF item.tag = T_ClassInstance
    THEN Named(DictGet(item.attrib, "Type"))
    ELSE Named(item.tag)

Visited(d) == [err |-> "", d |-> d]
VisitRaise(e, d) == [err |-> e, d |-> d]

RECURSIVE visit_items(_, _)
RECURSIVE VisitChildren(_, _, _)

\* lines 57-63: the loop over the children; d is the one dict object every
\* frame of the recursion updates in place
VisitChildren(kids, parent_name, d) ==
    IF kids = <<>> THEN Visited(d)
    ELSE LET child == kids[1]
         IN  IF child.tag \in parse_ignore
             THEN VisitChildren(Tail(kids), parent_name, d)
             ELSE IF child.children = <<>>
             THEN VisitChildren(Tail(kids), parent_name,
                      DictSet(d, parent_name,
                              DictSet(DictGet(d, parent_name), child.tag, child.text)))
             ELSE LET r == visit_items(child, d)
                  IN  IF r.err # "" THEN r
                      ELSE VisitChildren(Tail(kids), parent_name, r.d)

\* lines 45-65; on a raise, d is the dict as the frames left it
visit_items(item, edx_dict) ==
    LET pn == ParentName(item)
    IN  IF pn.err # "" THEN VisitRaise(pn.err, edx_dict)
        ELSE VisitChildren(item.children, pn.name,
                           DictSet(edx_dict, pn.name, EmptyDict))

\* the elements the normalizer is applied to
LeafAtom == Leaf(T_Atom, <<"2", "6">>)
LeafPercent == Leaf(<<"A", "t", "o", "m", "P", "e", "r", "c", "e", "n", "t">>, <<"0", ".", "4", "2">>)
LeafChannels == Leaf(<<"C", "h", "a", "n", "n", "e", "l", "s">>, <<"1", ",", "2">>)
LeafLine == Elem(<<"X", "L", "i", "n", "e">>, EmptyDict, NoText, <<>>)

NodeResult == Node(T_Result, EmptyDict, <<LeafAtom, LeafPercent>>)
NodeResultNoAtom == Node(T_Result, EmptyDict, <<LeafPercent>>)
NodeHeader ==
    Node(T_ClassInstance, <<[k |-> "Type", v |-> <<"T", "R", "T", "S", "p", "e", "c", "t", "r", "u", "m", "H", "e", "a", "d", "e", "r">>]>>,
         <<Leaf(<<"C", "a", "l", "i", "b", "A", "b", "s">>, <<"0">>), Leaf(<<"C", "a", "l", "i", "b", "L", "i", "n">>, <<"2">>)>>)
NodeElement ==
    Node(T_ClassInstance,
         <<[k |-> "Type", v |-> T_PSEElement], [k |-> "Name", v |-> <<"I", "r", "o", "n">>]>>,
         <<Leaf(<<"E", "l", "e", "m", "e", "n", "t">>, <<"2", "6">>)>>)
NodeIgnored == Node(<<"D", "e", "t", "L", "a", "y", "e", "r", "s">>, EmptyDict, <<LeafAtom>>)

VisitPool ==
    {LeafAtom, LeafPercent, LeafChannels, LeafLine,
     NodeResult, NodeResultNoAtom, NodeHeader, NodeElement, NodeIgnored}

SeqsUpTo(S, n) == UNION {[1..m -> S] : m \in 0..n}

VisitRoots ==
    {Node(tag, EmptyDict, kids) :
        tag \in {<<"S", "p", "e", "c", "t", "r", "u", "m">>, T_Result}, kids \in SeqsUpTo(VisitPool, MaxKids)}

\* visit_items(item): the accumulator is the function's one default dict,
\* which the call updates in place and returns
VisitItemsDefault ==
    /\ visit_calls < MaxVisitCalls
    /\ \E item \in VisitRoots :
          LET r == visit_items(item, default_edx_dict)
          IN  /\ default_edx_dict' = r.d
              /\ visit_ret' = r
              /\ visit_item' = item
    /\ visit_explicit' = FALSE
    /\ visit_calls' = visit_calls + 1
    /\ UNCHANGED <<query_vars, geom_vars, ingest_vars, grid_vars>>

\* visit_items(item, {}): the caller passes a new empty dict
VisitItemsExplicit ==
    /\ visit_calls < MaxVisitCalls
    /\ \E item \in VisitRoots :
          /\ visit_ret' = visit_items(item, EmptyDict)
          /\ visit_item' = item
    /\ visit_explicit' = TRUE
    /\ visit_calls' = visit_calls + 1
    /\ UNCHANGED <<query_vars, default_edx_dict, geom_vars, ingest_vars, grid_vars>>

\* ------------------------------------------------------------- values

\* What a field of the store or of a grid holds: a real number in
\* hundredths, a text, Python's None
Scale == 100
Num(n) == [num |-> n]
Str(s) == [str |-> s]
IsNum(v) == DOMAIN v = {"num"}
IsStr(v) == DOMAIN v = {"str"}

\* Python's s * n for a sequence
Repeat(s, n) ==
    IF n <= 0 THEN <<>> ELSE [i \in 1..(Len(s) * n) |-> s[((i - 1) % Len(s)) + 1]]

\* Position of the first "." of s, 0 when there is none
DotAt(s) ==
    IF \E i \in 1..Len(s) : s[i] = "."
    THEN CHOOSE i \in 1..Len(s) : s[i] = "." /\ \A j \in 1..(i - 1) : s[j] # "."
    ELSE 0

\* Python's float(s) on decimal text of at most two decimals ("0.42", "-5",
\* ".5", "2."), as a number of hundredths; ok is FALSE where float() raises
PyFloat(s) ==
    LET t     == PyStrip(s)
        sgn   == t # <<>> /\ t[1] \in {"-", "+"}
        body  == IF sgn THEN Tail(t) ELSE t
        dot   == DotAt(body)
        whole == IF dot = 0 THEN body ELSE SubSeq(body, 1, dot - 1)
        frac  == IF dot = 0 THEN <<>> ELSE SubSeq(body, dot + 1, Len(body))
        good  == /\ whole \o frac # <<>>
                 /\ \A i \in 1..Len(whole) : whole[i] \in Digits
                 /\ \A i \in 1..Len(frac) : frac[i] \in Digits
                 /\ Len(frac) <= 2
        mag   == DigitsToNat(whole) * Scale
                   + DigitsToNat(frac \o Repeat(<<"0">>, 2 - Len(frac)))
    IN  IF good THEN [ok |-> TRUE, v |-> IF sgn /\ t[1] = "-" THEN -mag ELSE mag]
        ELSE [ok |-> FALSE, v |-> 0]

\* best-effort numeric coercion: text that float() takes becomes the number,
\* anything else comes back as it was
convertFloat(x) ==
    IF x = NoText THEN x
    ELSE IF PyFloat(x.text).ok THEN Num(PyFloat(x.text).v)
    ELSE Str(x.text)

\* value * 100 in Python: a number is multiplied, a str is repeated
Times(v, n) ==
    IF IsNum(v) THEN Num(v.num * n)
    ELSE IF IsStr(v) THEN Str(Repeat(v.str, n))
    ELSE v

PercentFactor == 100

\* ------------------------------------------------------------ get_units

dict_units ==
    << [k |-> <<"P", "r", "i", "m", "a", "r", "y", "E", "n", "e", "r", "g", "y">>, v |-> <<"k", "e", "V">>],
       [k |-> <<"W", "o", "r", "k", "i", "n", "g", "D", "i", "s", "t", "a", "n", "c", "e">>, v |-> <<"m", "m">>],
       [k |-> <<"C", "a", "l", "i", "b", "A", "b", "s">>, v |-> <<"k", "e", "V">>],
       [k |-> <<"C", "a", "l", "i", "b", "L", "i", "n">>, v |-> <<"k", "e", "V">>],
       [k |-> <<"D", "e", "t", "e", "c", "t", "o", "r", "T", "e", "m", "p", "e", "r", "a", "t", "u", "r", "e">>, v |-> <<"°", "C">>],
       [k |-> <<"D", "e", "t", "e", "c", "t", "o", "r", "T", "h", "i", "c", "k", "n", "e", "s", "s">>, v |-> <<"m", "m">>],
       [k |-> <<"S", "i", "D", "e", "a", "d", "L", "a", "y", "e", "r", "T", "h", "i", "c", "k", "n", "e", "s", "s">>, v |-> <<"m", "m">>],
       [k |-> <<"A", "t", "o", "m", "P", "e", "r", "c", "e", "n", "t">>, v |-> <<"a", "t", ".", "%">>],
       [k |-> <<"M", "a", "s", "s", "P", "e", "r", "c", "e", "n", "t">>, v |-> <<"m", "a", "s", "s", ".", "%">>] >>

\* the unit of a field, NoText for Python's None
get_units(key) ==
    IF DictHas(dict_units, key) THEN Text(DictGet(dict_units, key)) ELSE NoText

\* ------------------------------------------------------- the HDF5 store

\* A store maps the path of every group and dataset (the sequence of names
\* from the root) to its node; the root group is the empty path.
GroupNode == [kind |-> "group", value |-> NoText, attrs |-> EmptyDict]
DataNode(v) == [kind |-> "dataset", value |-> v, attrs |-> EmptyDict]

EmptyStore == (<<>> :> GroupNode)

Exists(st, p) == p \in DOMAIN st

IsPrefix(p, q) == Len(p) <= Len(q) /\ SubSeq(q, 1, Len(p)) = p

ChildNames(st, p) == {q[Len(q)] : q \in {r \in DOMAIN st : Len(r) = Len(p) + 1 /\ IsPrefix(p, r)}}

Done(st) == [st |-> st, err |-> ""]
Raise(st, e) == [st |-> st, err |-> e]

Prefixes(p) == {SubSeq(p, 1, n) : n \in 0..Len(p)}

\* Group.create_group(name): the missing groups on the way are created; a
\* name that exists already raises ValueError
H5CreateGroup(st, p) ==
    IF Exists(st, p) \/ \E q \in Prefixes(p) : Exists(st, q) /\ st[q].kind # "group"
    THEN Raise(st, "ValueError")
    ELSE Done([q \in Prefixes(p) \ DOMAIN st |-> GroupNode] @@ st)

\* group[name] = value: a new dataset; a name that exists already raises
H5SetData(st, p, v) ==
    IF Exists(st, p) THEN Raise(st, "NameExists")
    ELSE Done((p :> DataNode(v)) @@ st)

\* node.attrs[name] = value
H5SetAttr(st, p, name, v) ==
    IF ~Exists(st, p) THEN Raise(st, "KeyError")
    ELSE Done([st EXCEPT ![p].attrs = DictSet(@, name, v)])

\* del group[name]: the node and all below it
H5Delete(st, p) ==
    IF ~Exists(st, p) THEN Raise(st, "KeyError")
    ELSE Done([q \in {r \in DOMAIN st : ~IsPrefix(p, r)} |-> st[q]])

\* group[new] = group[old] followed by del group[old]: the subtree is
\* reachable under the new name only
H5Move(st, old, new) ==
    IF ~Exists(st, old) THEN Raise(st, "KeyError")
    ELSE IF Exists(st, new) THEN Raise(st, "NameExists")
    ELSE LET moved == {new \o SubSeq(r, Len(old) + 1, Len(r)) :
                          r \in {r \in DOMAIN st : IsPrefix(old, r)}}
             kept  == {r \in DOMAIN st : ~IsPrefix(old, r)}
         IN  Done([q \in kept \cup moved |->
                     IF q \in kept THEN st[q]
                     ELSE st[old \o SubSeq(q, Len(new) + 1, Len(q))]])

\* ------------------------------------ set_instrument_and_result_from_dict

StartsWith(s, prefix) == IsPrefix(prefix, s)

RECURSIVE Join(_, _)
Join(parts, sep) ==
    IF Len(parts) = 1 THEN parts[1] ELSE parts[1] \o sep \o Join(Tail(parts), sep)

\* Python's s.replace(old, new)
PyReplace(s, old, new) == Join(PySplit(s, old), new)

RECURSIVE get_all_keys(_, _)
\* the (key, value) pairs of a dict in depth-first pre-order: each pair is
\* followed by the pairs of its value when that value is a dict. nested says
\* that the values of d are dicts (edx_dict) and not leaves (one of its
\* values); every pair carries what isinstance(value, dict) gives for it
get_all_keys(d, nested) ==
    IF d = <<>> THEN <<>>
    ELSE <<[k |-> d[1].k, v |-> d[1].v, dict |-> nested]>>
         \o (IF nested THEN get_all_keys(d[1].v, FALSE) ELSE <<>>)
         \o get_all_keys(Tail(d), nested)

N_AtomPercent == <<"A", "t", "o", "m", "P", "e", "r", "c", "e", "n", "t">>
N_MassPercent == <<"M", "a", "s", "s", "P", "e", "r", "c", "e", "n", "t">>
N_Element == <<"E", "l", "e", "m", "e", "n", "t">>
N_TRTResult == <<"T", "R", "T", "R", "e", "s", "u", "l", "t">>
N_TRT == <<"T", "R", "T">>
P_Result == <<"R", "e", "s", "u", "l", "t", " ">>
P_Element == <<"E", "l", "e", "m", "e", "n", "t", " ">>
P_PSEElement == <<"T", "R", "T", "P", "S", "E", "E", "l", "e", "m", "e", "n", "t", " ">>

\* run the next store operation unless an earlier one raised
Bind(r, F(_)) == IF r.err # "" THEN r ELSE F(r.st)

Written(st, w) == [st |-> st, err |-> "", writes |-> w]
Failed(st, e, w) == [st |-> st, err |-> e, writes |-> w]

\* every leaf stored as converted, the percentages included
StoredValueUnscaled(subkey, subvalue) == convertFloat(subvalue)

\* lines 202-206: the value stored for a leaf
StoredValue(subkey, subvalue) ==
    IF subkey = N_AtomPercent \/ subkey = N_MassPercent
    THEN Times(convertFloat(subvalue), PercentFactor)
    ELSE convertFloat(subvalue)

\* lines 207-208: the units attribute, attached only when get_units has one
AttachUnits(st, p, subkey) ==
    IF get_units(subkey) # NoText
    THEN H5SetAttr(st, p, "units", get_units(subkey).text)
    ELSE Done(st)

\* lines 202-208: one leaf, the dataset and then its units attribute
WriteLeaf(st, p, subkey, subvalue) ==
    Bind(H5SetData(st, p, StoredValue(subkey, subvalue)),
         LAMBDA s : AttachUnits(s, p, subkey))

RECURSIVE WriteLeaves(_, _, _, _)
RECURSIVE LeafWritten(_, _, _, _)
\* lines 200-208: the leaves of one dict-valued item written to its subgroup
WriteLeaves(items, sub, st, w) ==
    IF items = <<>> THEN Written(st, w)
    ELSE IF items[1].v = NoText THEN WriteLeaves(Tail(items), sub, st, w)
    ELSE LeafWritten(WriteLeaf(st, Append(sub, items[1].k), items[1].k, items[1].v),
                     items, sub, w)

\* r is the outcome of writing the first of items; the loop goes on after it
LeafWritten(r, items, sub, w) ==
    IF r.err # "" THEN Failed(r.st, r.err, w)
    ELSE WriteLeaves(Tail(items), sub, r.st,
                     Append(w, [path |-> Append(sub, items[1].k),
                                subkey |-> items[1].k, raw |-> items[1].v]))

\* from is the old path of a subgroup that was renamed, <<>> otherwise
Opened(st, sub, from) == [st |-> st, err |-> "", sub |-> sub, from |-> from]
NotOpened(st, e) == [st |-> st, err |-> e, sub |-> <<>>, from |-> <<>>]

\* the log of leaf writes follows a renamed subgroup
Renamed(w, old, new) ==
    IF old = <<>> THEN w
    ELSE [i \in 1..Len(w) |->
            IF IsPrefix(old, w[i].path)
            THEN [w[i] EXCEPT !.path = new \o SubSeq(@, Len(old) + 1, Len(@))]
            ELSE w[i]]

\* the subgroup sub is open unless the store operation before raised
OpenedBy(r, sub, from) ==
    IF r.err # "" THEN NotOpened(r.st, r.err) ELSE Opened(r.st, sub, from)

\* lines 190-192 after the rename: del node["Atom"] on the renamed group
MovedTo(r, old, new) ==
    IF r.err # "" THEN NotOpened(r.st, r.err)
    ELSE [st   |-> H5Delete(r.st, Append(new, T_Atom)).st,
          err  |-> H5Delete(r.st, Append(new, T_Atom)).err,
          sub  |-> new, from |-> old]

\* lines 182-198: the subgroup a non-empty dict-valued item is written to
OpenSubgroup(key, value, instrument_group, result_group, st) ==
    IF StartsWith(key, T_Result) \/ key = N_TRTResult
    THEN OpenedBy(H5CreateGroup(st, Append(result_group, key)),
                  Append(result_group, key), <<>>)
    ELSE IF StartsWith(key, T_ExtResults)
    THEN IF ~DictHas(value, T_Atom) \/ DictGet(value, T_Atom) = NoText
         THEN NotOpened(st, "KeyError")
         ELSE IF ~Exists(st, Append(result_group, P_Result \o DictGet(value, T_Atom).text))
         THEN NotOpened(st, "KeyError")
         ELSE OpenedBy(H5Delete(st, Append(Append(result_group,
                                    P_Result \o DictGet(value, T_Atom).text), T_Atom)),
                       Append(result_group, P_Result \o DictGet(value, T_Atom).text), <<>>)
    ELSE IF StartsWith(key, T_PSEElement)
    THEN IF ~DictHas(value, N_Element) \/ DictGet(value, N_Element) = NoText
         THEN NotOpened(st, "KeyError")
         ELSE MovedTo(H5Move(st, Append(result_group, P_Result \o DictGet(value, N_Element).text),
                             Append(result_group, P_Element \o PyReplace(key, P_PSEElement, <<>>))),
                      Append(result_group, P_Result \o DictGet(value, N_Element).text),
                      Append(result_group, P_Element \o PyReplace(key, P_PSEElement, <<>>)))
    ELSE OpenedBy(H5CreateGroup(st, Append(instrument_group, PyReplace(key, N_TRT, <<>>))),
                  Append(instrument_group, PyReplace(key, N_TRT, <<>>)), <<>>)

RECURSIVE WriteItems(_, _, _, _, _)
RECURSIVE ItemOpened(_, _, _, _, _)
RECURSIVE ItemWritten(_, _, _, _)
\* lines 178-208: the loop over the items of edx_dict
WriteItems(items, instrument_group, result_group, st, w) ==
    IF items = <<>> THEN Written(st, w)
    ELSE IF ~items[1].dict \/ items[1].v = EmptyDict
    THEN WriteItems(Tail(items), instrument_group, result_group, st, w)
    ELSE ItemOpened(OpenSubgroup(items[1].k, items[1].v, instrument_group, result_group, st),
                    items, instrument_group, result_group, w)

\* o is the subgroup of the first of items; its leaves are written to it
ItemOpened(o, items, instrument_group, result_group, w) ==
    IF o.err # "" THEN Failed(o.st, o.err, Renamed(w, o.from, o.sub))
    ELSE ItemWritten(WriteLeaves(get_all_keys(items[1].v, FALSE), o.sub, o.st,
                                 Renamed(w, o.from, o.sub)),
                     items, instrument_group, result_group)

\* l is the outcome of writing the leaves of the first of items
ItemWritten(l, items, instrument_group, result_group) ==
    IF l.err # "" THEN l
    ELSE WriteItems(Tail(items), instrument_group, result_group, l.st, l.writes)

set_instrument_and_result_from_dict(edx_dict, instrument_group, result_group, st) ==
    WriteItems(get_all_keys(edx_dict, TRUE), instrument_group, result_group, st, <<>>)

\* ------------------------------------------------- read_data_from_spx

Arr(a) == [arr |-> a]

T_Channels == <<"C", "h", "a", "n", "n", "e", "l", "s">>
K_Header == <<"T", "R", "T", "S", "p", "e", "c", "t", "r", "u", "m", "H", "e", "a", "d", "e", "r">>
K_CalibAbs == <<"C", "a", "l", "i", "b", "A", "b", "s">>
K_CalibLin == <<"C", "a", "l", "i", "b", "L", "i", "n">>

RECURSIVE ParseInts(_)
\* [int(counts) for counts in parts]
ParseInts(parts) ==
    IF parts = <<>> THEN [ok |-> TRUE, v |-> <<>>]
    ELSE LET h == PyInt(parts[1])
             t == ParseInts(Tail(parts))
         IN  IF h.ok /\ t.ok THEN [ok |-> TRUE, v |-> <<h.v>> \o t.v]
             ELSE [ok |-> FALSE, v |-> <<>>]

RECURSIVE ChannelsOf(_, _)
\* lines 80-81: every Channels element in document order, the last one wins
ChannelsOf(elms, channels) ==
    IF elms = <<>> THEN [err |-> "", channels |-> channels]
    ELSE IF elms[1].tag # T_Channels THEN ChannelsOf(Tail(elms), channels)
    ELSE IF elms[1].text = NoText THEN [err |-> "AttributeError", channels |-> channels]
    ELSE LET ints == ParseInts(PySplit(elms[1].text.text, <<",">>))
         IN  IF ints.ok THEN ChannelsOf(Tail(elms), ints.v)
             ELSE [err |-> "ValueError", channels |-> channels]

get_channels(xml_root) == ChannelsOf(Iter(xml_root), <<>>)

\* A .spx file: text that parses as XML or not, and the document element
SpxFile(path, wellformed, doc) == [path |-> path, wellformed |-> wellformed, doc |-> doc]

\* lines 100-102: v is the outcome of visit_items, c of get_channels
ReadRoot(v, c) ==
    IF v.err # ""
    THEN [err |-> v.err, edx_dict |-> v.d, channels |-> <<>>, dflt |-> v.d]
    ELSE [err |-> c.err, edx_dict |-> v.d, channels |-> c.channels, dflt |-> v.d]

\* lines 96-103; dflt is visit_items' default dict, which line 100 updates
read_data_from_spx(file, dflt) ==
    IF ~file.wellformed
    THEN [err |-> "ParseError", edx_dict |-> EmptyDict, channels |-> <<>>, dflt |-> dflt]
    ELSE IF Len(file.doc.children) < 2
    THEN [err |-> "IndexError", edx_dict |-> EmptyDict, channels |-> <<>>, dflt |-> dflt]
    ELSE ReadRoot(visit_items(file.doc.children[2], dflt),
                  get_channels(file.doc.children[2]))

\* ------------------------------------------------- make_energy_dataset

\* (i + 1) * energy_step + zero_energy for the 0-based i = n - 1
EnergyAt(n, energy_step, zero_energy) ==
    IF IsNum(energy_step) THEN Num(n * energy_step.num + zero_energy.num)
    ELSE Str(Repeat(energy_step.str, n) \o zero_energy.str)

\* one energy per channel, without the halving
EnergyCountFull(channels) == Len(channels)

\* line 231: range(len(channels) // 2)
EnergyCount(channels) == Len(channels) \div 2

make_energy_dataset(edx_dict, channels) ==
    IF \/ ~DictHas(edx_dict, K_Header)
       \/ ~DictHas(DictGet(edx_dict, K_Header), K_CalibAbs)
       \/ ~DictHas(DictGet(edx_dict, K_Header), K_CalibLin)
    THEN [err |-> "KeyError", energy |-> <<>>]
    ELSE LET zero_energy == convertFloat(DictGet(DictGet(edx_dict, K_Header), K_CalibAbs))
             energy_step == convertFloat(DictGet(DictGet(edx_dict, K_Header), K_CalibLin))
             count       == EnergyCount(channels)
             sametype    == \/ IsNum(zero_energy) /\ IsNum(energy_step)
                            \/ IsStr(zero_energy) /\ IsStr(energy_step)
         IN  IF count > 0 /\ ~sametype THEN [err |-> "TypeError", energy |-> <<>>]
             ELSE [err |-> "",
                   energy |-> [n \in 1..count |-> EnergyAt(n, energy_step, zero_energy)]]

\* the calibration texts and headers make_energy_dataset is applied to
CalibTexts == {<<"0">>, <<"2">>, <<"0", ".", "5">>, <<"-", "1">>, <<"x">>}

HeaderDicts ==
    {<<[k |-> K_Header, v |-> <<[k |-> K_CalibAbs, v |-> Text(a)],
                                [k |-> K_CalibLin, v |-> Text(l)]>>]>> :
        a \in CalibTexts, l \in CalibTexts}
    \cup {EmptyDict,
          <<[k |-> K_Header, v |-> <<[k |-> K_CalibAbs, v |-> Text(<<"0">>)]>>]>>}

\* one call per behaviour: the function keeps no state between calls
MakeEnergyDataset ==
    /\ ~energy_call.called
    /\ \E d \in HeaderDicts, n \in 0..MaxChannels :
          LET channels == [i \in 1..n |-> i - 1]
          IN  energy_call' = [called |-> TRUE, edx_dict |-> d, channels |-> channels,
                              ret |-> make_energy_dataset(d, channels)]
    /\ UNCHANGED <<query_vars, geom_vars, visit_vars, store, ingest, ingest_count, positions_call,
                   grid_vars>>

\* --------------------------------------------------- write_edx_to_hdf5

G_entry == <<"e", "n", "t", "r", "y">>
G_edx == <<"e", "d", "x">>
G_instrument == <<"i", "n", "s", "t", "r", "u", "m", "e", "n", "t">>
G_results == <<"r", "e", "s", "u", "l", "t", "s">>
G_measurement == <<"m", "e", "a", "s", "u", "r", "e", "m", "e", "n", "t">>
D_x_pos == <<"x", "_", "p", "o", "s">>
D_y_pos == <<"y", "_", "p", "o", "s">>
D_counts == <<"c", "o", "u", "n", "t", "s">>
D_energy == <<"e", "n", "e", "r", "g", "y">>

\* line 255: /entry/edx/scan_<x>,<y>/
ScanGroup(scan_numbers) ==
    <<G_entry, G_edx,
      <<"s", "c", "a", "n", "_">> \o PyStr(scan_numbers[1]) \o <<",">> \o PyStr(scan_numbers[2])>>

\* lines 256-265: the scan group and its instrument group with the position
WriteInstrument(st, scan, wafer_positions) ==
    LET instrument == Append(scan, G_instrument)
        r1 == H5CreateGroup(st, scan)
        r2 == Bind(r1, LAMBDA s : H5CreateGroup(s, instrument))
        r3 == Bind(r2, LAMBDA s : H5SetAttr(s, instrument, "NX_class", <<"H", "T", "i", "n", "s", "t", "r", "u", "m", "e", "n", "t">>))
        r4 == Bind(r3, LAMBDA s : H5SetData(s, Append(instrument, D_x_pos),
                                            Num(wafer_positions[1] * Scale)))
        r5 == Bind(r4, LAMBDA s : H5SetData(s, Append(instrument, D_y_pos),
                                            Num(wafer_positions[2] * Scale)))
        r6 == Bind(r5, LAMBDA s : H5SetAttr(s, Append(instrument, D_x_pos), "units", <<"m", "m">>))
    IN  Bind(r6, LAMBDA s : H5SetAttr(s, Append(instrument, D_y_pos), "units", <<"m", "m">>))

\* lines 271-281: the measurement group with the counts and the energy axis;
\* an energy array of text does not convert to dtype "float"
WriteMeasurement(st, scan, channels, energy) ==
    LET data == Append(scan, G_measurement)
        r1 == H5CreateGroup(st, data)
        r2 == Bind(r1, LAMBDA s : H5SetAttr(s, data, "NX_class", <<"H", "T", "d", "a", "t", "a">>))
        r3 == Bind(r2, LAMBDA s : H5SetData(s, Append(data, D_counts), Arr(channels)))
        r4 == Bind(r3, LAMBDA s :
                  IF \E i \in 1..Len(energy) : ~IsNum(energy[i]) THEN Raise(s, "ValueError")
                  ELSE H5SetData(s, Append(data, D_energy),
                                 Arr([i \in 1..Len(energy) |-> energy[i].num])))
        r5 == Bind(r4, LAMBDA s : H5SetAttr(s, Append(data, D_counts), "units", <<"c", "p", "s">>))
    IN  Bind(r5, LAMBDA s : H5SetAttr(s, Append(data, D_energy), "units", <<"k", "e", "V">>))

Ingested(st, dflt, err, scan, pos, writes) ==
    [st |-> st, dflt |-> dflt, err |-> err, scan |-> scan, pos |-> pos, writes |-> writes]

\* line 250: the wafer position of a scan, with the default geometry
WaferOf(scan_numbers) ==
    get_wafer_positions(scan_numbers, DefaultStep, DefaultStep, DefaultStart, DefaultStart)

\* lines 256-269: the instrument group, then the results group
WriteGroups(f, scan, wafer_positions) ==
    Bind(Bind(WriteInstrument(f, scan, wafer_positions),
              LAMBDA s : H5CreateGroup(s, Append(scan, G_results))),
         LAMBDA s : H5SetAttr(s, Append(scan, G_results), "NX_class",
                              <<"H", "T", "r", "e", "s", "u", "l", "t">>))

\* line 270: the items of edx_dict, unless a group could not be made
WriteDict(r, edx_dict, scan) ==
    IF r.err # "" THEN Failed(r.st, r.err, <<>>)
    ELSE set_instrument_and_result_from_dict(edx_dict, Append(scan, G_instrument),
                                             Append(scan, G_results), r.st)

\* the outcome r of the measurement group with the leaf writes of w
Measured(r, w) == [st |-> r.st, err |-> r.err, writes |-> w.writes]

\* lines 271-281 after the items w of edx_dict
WriteData(w, scan, channels, energy) ==
    IF w.err # "" THEN w
    ELSE Measured(WriteMeasurement(w.st, scan, channels, energy), w)

\* lines 253-281: the file opened in the given mode and written
WriteFile(f, scan_numbers, rd, en) ==
    WriteData(WriteDict(WriteGroups(f, ScanGroup(scan_numbers), WaferOf(scan_numbers)),
                        rd.edx_dict, ScanGroup(scan_numbers)),
              ScanGroup(scan_numbers), rd.channels, en.energy)

\* the outcome of the call once the file is closed
Closed(r, scan_numbers, rd) ==
    Ingested(r.st, rd.dflt, r.err, scan_numbers, WaferOf(scan_numbers), r.writes)

\* lines 252-283 with the file opened anew whatever the mode
WithEnergyTruncating(en, rd, scan_numbers, st, mode) ==
    IF en.err # ""
    THEN Ingested(st, rd.dflt, en.err, scan_numbers, WaferOf(scan_numbers), <<>>)
    ELSE Closed(WriteFile(EmptyStore, scan_numbers, rd, en), scan_numbers, rd)

\* lines 252-283 with the energy axis en
WithEnergy(en, rd, scan_numbers, st, mode) ==
    IF en.err # ""
    THEN Ingested(st, rd.dflt, en.err, scan_numbers, WaferOf(scan_numbers), <<>>)
    ELSE Closed(WriteFile(IF mode = "w" THEN EmptyStore ELSE st, scan_numbers, rd, en),
                scan_numbers, rd)

\* lines 251-283 with the file opened and the scan group made before the
\* .spx file is read
WithDataOpenedFirst(rd, scan_numbers, st, mode) ==
    IF rd.err # ""
    THEN Ingested(H5CreateGroup(IF mode = "w" THEN EmptyStore ELSE st,
                                ScanGroup(scan_numbers)).st,
                  rd.dflt, rd.err, scan_numbers, WaferOf(scan_numbers), <<>>)
    ELSE WithEnergy(make_energy_dataset(rd.edx_dict, rd.channels), rd, scan_numbers, st, mode)

\* lines 251-283 with the data rd read from the .spx file
WithData(rd, scan_numbers, st, mode) ==
    IF rd.err # ""
    THEN Ingested(st, rd.dflt, rd.err, scan_numbers, WaferOf(scan_numbers), <<>>)
    ELSE WithEnergy(make_energy_dataset(rd.edx_dict, rd.channels), rd, scan_numbers, st, mode)

\* lines 250-283 with the scan numbers sn of the file name
WithScanNumbers(sn, st, dflt, filepath, mode) ==
    IF sn.status # "ok" THEN Ingested(st, dflt, sn.status, <<>>, <<>>, <<>>)
    ELSE WithData(read_data_from_spx(filepath, dflt), <<sn.x, sn.y>>, st, mode)

\* lines 249-283; st is the content of the file at HDF5_path (EmptyStore for
\* a file that does not exist yet), dflt the default dict of visit_items
write_edx_to_hdf5(st, dflt, filepath, mode) ==
    WithScanNumbers(get_scan_numbers(filepath.path), st, dflt, filepath, mode)

\* ------------------------------------------------------ names and floats

UpperChars == <<"A", "B", "C", "D", "E", "F", "G", "H", "I", "J", "K", "L", "M", "N", "O", "P", "Q", "R", "S", "T", "U", "V", "W", "X", "Y", "Z">>
LowerChars == <<"a", "b", "c", "d", "e", "f", "g", "h", "i", "j", "k", "l", "m", "n", "o", "p", "q", "r", "s", "t", "u", "v", "w", "x", "y", "z">>

LowerChar(c) ==
    IF \E i \in 1..26 : UpperChars[i] = c
    THEN LowerChars[CHOOSE i \in 1..26 : UpperChars[i] = c]
    ELSE c

\* Python's s.lower()
PyLower(s) == [i \in 1..Len(s) |-> LowerChar(s[i])]

\* the characters of names in code-point order
CodePoints == <<" ", "%", "(", ")", ",", "-", ".", "/", "0", "1", "2", "3", "4", "5", "6", "7", "8", "9">> \o UpperChars \o <<"_">> \o LowerChars \o <<"°">>

Rank(c) == CHOOSE i \in 1..Len(CodePoints) : CodePoints[i] = c

RECURSIVE NameLess(_, _)
\* a < b for two names, as HDF5 orders the links of a group
NameLess(a, b) ==
    IF b = <<>> THEN FALSE
    ELSE IF a = <<>> THEN TRUE
    ELSE IF a[1] # b[1] THEN Rank(a[1]) < Rank(b[1])
    ELSE NameLess(Tail(a), Tail(b))

RECURSIVE SortNames(_)
SortNames(S) ==
    IF S = {} THEN <<>>
    ELSE LET m == CHOOSE x \in S : \A y \in S \ {x} : NameLess(x, y)
         IN  <<m>> \o SortNames(S \ {m})

\* iterating a group: the names of its members in order
Members(st, p) == SortNames(ChildNames(st, p))

\* round(v, 1) on hundredths: the nearest tenth, a tie going to the even
\* tenth as Python rounds a half that the float holds exactly
Round1(v) ==
    LET q == v \div 10
        r == v % 10
    IN  IF r < 5 THEN q * 10
        ELSE IF r > 5 THEN (q + 1) * 10
        ELSE IF q % 2 = 0 THEN q * 10 ELSE (q + 1) * 10

\* str() of a float that round(., 1) returned: "5.0", "-10.0"
FloatStr(v) ==
    LET mag == IF v < 0 THEN -v ELSE v
        txt == NatToStr(mag \div Scale) \o <<".">> \o NatToStr((mag % Scale) \div 10)
    IN  IF v < 0 THEN <<"-">> \o txt ELSE txt

\* ----------------------------------------------------- make_group_path

Found(p) == [err |-> "", path |-> p]
NotFound(e) == [err |-> e, path |-> <<>>]

RECURSIVE StartGroup(_, _, _)
\* lines 25-31: the first top-level member whose HT_type is the data type
StartGroup(st, groups, data_type) ==
    IF groups = <<>> THEN NotFound("ValueError")
    ELSE IF ~DictHas(st[<<groups[1]>>].attrs, "HT_type") THEN NotFound("KeyError")
    ELSE IF DictGet(st[<<groups[1]>>].attrs, "HT_type") = PyLower(data_type)
    THEN Found(<<groups[1]>>)
    ELSE StartGroup(st, Tail(groups), data_type)

\* str(round(float(v), 1)): a negative value that rounds to zero keeps its
\* sign, "-0.0"
RoundStr(v) ==
    IF v < 0 /\ Round1(v) = 0 THEN <<"-", "0", ".", "0">> ELSE FloatStr(Round1(v))

\* f"({x_pos},{y_pos})" of lines 37-39
PositionGroup(x_pos, y_pos) ==
    <<"(">> \o RoundStr(x_pos) \o <<",">> \o RoundStr(y_pos) \o <<")">>

\* lines 19-43 without the access of line 40
make_group_path_unchecked(st, data_type, measurement_type, x_pos, y_pos) ==
    LET start_group == StartGroup(st, Members(st, <<>>), data_type)
    IN  IF start_group.err # "" THEN start_group
        ELSE IF measurement_type = NoText \/ x_pos = NoText \/ y_pos = NoText
        THEN start_group
        ELSE Found(start_group.path
                   \o <<PositionGroup(x_pos.num, y_pos.num), PyLower(measurement_type.text)>>)

\* lines 19-43; measurement_type, x_pos and y_pos are NoText for None
make_group_path(st, data_type, measurement_type, x_pos, y_pos) ==
    LET start_group == StartGroup(st, Members(st, <<>>), data_type)
    IN  IF start_group.err # "" THEN start_group
        ELSE IF measurement_type = NoText \/ x_pos = NoText \/ y_pos = NoText
        THEN start_group
        ELSE LET group == Append(start_group.path, PositionGroup(x_pos.num, y_pos.num))
                 group_path == Append(group, PyLower(measurement_type.text))
             IN  IF Exists(st, group) /\ Exists(st, group_path)
                 THEN Found(group_path)
                 ELSE NotFound("KeyError")

\* ---------------------------------------------------- get_all_positions

N_scan_parameters == <<"s", "c", "a", "n", "_", "p", "a", "r", "a", "m", "e", "t", "e", "r", "s">>
N_alignment_scans == <<"a", "l", "i", "g", "n", "m", "e", "n", "t", "_", "s", "c", "a", "n", "s">>

PairLess(a, b) == a[1] < b[1] \/ (a[1] = b[1] /\ a[2] < b[2])

RECURSIVE SortPairs(_)
\* sorted(set(positions))
SortPairs(S) ==
    IF S = {} THEN <<>>
    ELSE LET m == CHOOSE x \in S : \A y \in S \ {x} : PairLess(x, y)
         IN  <<m>> \o SortPairs(S \ {m})

\* float(dataset[()]) of a scalar dataset
ReadFloat(st, p) ==
    IF ~Exists(st, p) THEN [err |-> "KeyError", v |-> 0]
    ELSE IF IsNum(st[p].value) THEN [err |-> "", v |-> st[p].value.num]
    ELSE [err |-> "TypeError", v |-> 0]

RECURSIVE CollectPositionsUnrounded(_, _, _, _)
\* lines 68-77 with the positions as read
CollectPositionsUnrounded(st, data_group, groups, positions) ==
    IF groups = <<>> THEN [err |-> "", positions |-> positions]
    ELSE IF groups[1] \in {N_scan_parameters, N_alignment_scans}
    THEN CollectPositionsUnrounded(st, data_group, Tail(groups), positions)
    ELSE LET instrument == data_group \o <<groups[1], G_instrument>>
             x == ReadFloat(st, Append(instrument, D_x_pos))
             y == ReadFloat(st, Append(instrument, D_y_pos))
         IN  IF ~Exists(st, instrument) THEN [err |-> "KeyError", positions |-> {}]
             ELSE IF x.err # "" THEN [err |-> x.err, positions |-> {}]
             ELSE IF y.err # "" THEN [err |-> y.err, positions |-> {}]
             ELSE CollectPositionsUnrounded(st, data_group, Tail(groups),
                                            positions \cup {<<x.v, y.v>>})

RECURSIVE CollectPositions(_, _, _, _)
\* lines 68-77
CollectPositions(st, data_group, groups, positions) ==
    IF groups = <<>> THEN [err |-> "", positions |-> positions]
    ELSE IF groups[1] \in {N_scan_parameters, N_alignment_scans}
    THEN CollectPositions(st, data_group, Tail(groups), positions)
    ELSE LET instrument == data_group \o <<groups[1], G_instrument>>
             x == ReadFloat(st, Append(instrument, D_x_pos))
             y == ReadFloat(st, Append(instrument, D_y_pos))
         IN  IF ~Exists(st, instrument) THEN [err |-> "KeyError", positions |-> {}]
             ELSE IF x.err # "" THEN [err |-> x.err, positions |-> {}]
             ELSE IF y.err # "" THEN [err |-> y.err, positions |-> {}]
             ELSE CollectPositions(st, data_group, Tail(groups),
                                   positions \cup {<<Round1(x.v), Round1(y.v)>>})

\* lines 46-79: the sorted distinct positions, or the error raised
get_all_positions(st, data_type) ==
    LET data_group == make_group_path(st, data_type, NoText, NoText, NoText)
        c == CollectPositions(st, data_group.path, Members(st, data_group.path), {})
    IN  IF data_group.err # "" THEN [err |-> data_group.err, positions |-> <<>>]
        ELSE IF c.err # "" THEN [err |-> c.err, positions |-> <<>>]
        ELSE [err |-> "", positions |-> SortPairs(c.positions)]

\* ------------------------------------------------- the ingest, as called

\* a store written by the other compilers, in the layout the readers walk:
\* /<root, HT_type>/(x,y)/instrument/{x_pos, y_pos}
LegacyStore ==
    LET root == <<<<"E", "D", "X">>>>
        inst == root \o <<<<"(", "0", ".", "0", ",", "0", ".", "0", ")">>, G_instrument>>
        a == H5CreateGroup(EmptyStore, inst).st
        b == H5SetAttr(a, root, "HT_type", <<"e", "d", "x">>).st
        c == H5SetData(b, Append(inst, D_x_pos), Num(0)).st
        d == H5SetData(c, Append(inst, D_y_pos), Num(0)).st
        e == H5SetAttr(d, Append(inst, D_x_pos), "units", <<"m", "m">>).st
    IN  H5SetAttr(e, Append(inst, D_y_pos), "units", <<"m", "m">>).st

InitialStores == {EmptyStore, LegacyStore}

LeafChannels6 == Leaf(T_Channels, <<"0", ",", "1", ",", "2", ",", "3", ",", "4", ",", "5">>)

ResultNode(pct) ==
    Node(T_Result, EmptyDict,
         <<LeafAtom, Leaf(N_AtomPercent, pct), Leaf(N_MassPercent, <<"0", ".", "5">>),
           Leaf(<<"X", "L", "i", "n", "e">>, <<"K">>), Elem(<<"E", "r", "r", "o", "r">>, EmptyDict, NoText, <<>>)>>)

ExtNode == Node(T_ExtResults, EmptyDict, <<LeafAtom, Leaf(<<"A", "b", "s", "E", "r", "r", "o", "r">>, <<"0", ".", "0", "1">>)>>)

\* the .spx document: the spectrum is the second child of the document element
Doc(kids) ==
    Node(<<"T", "R", "T", "S", "p", "e", "c", "t", "r", "u", "m">>, EmptyDict,
         <<Node(<<"R", "T", "H", "e", "a", "d", "e", "r">>, EmptyDict, <<Leaf(<<"D", "a", "t", "e">>, <<"1">>)>>),
           Node(T_ClassInstance, <<[k |-> "Type", v |-> <<"T", "R", "T", "S", "p", "e", "c", "t", "r", "u", "m">>]>>, kids)>>)

ShortDoc == Node(<<"T", "R", "T", "S", "p", "e", "c", "t", "r", "u", "m">>, EmptyDict, <<Leaf(<<"D", "a", "t", "e">>, <<"1">>)>>)

PlainBody(p) == <<NodeHeader, ResultNode(p), LeafChannels6>>
FullBody(p) == <<NodeHeader, ResultNode(p), ExtNode, NodeElement, LeafChannels6>>
\* a header whose calibration is not numeric
NodeTextHeader ==
    Node(T_ClassInstance, <<[k |-> "Type", v |-> K_Header]>>,
         <<Leaf(K_CalibAbs, <<"x">>), Leaf(K_CalibLin, <<"x">>)>>)

TextHeaderBody == <<NodeTextHeader, ResultNode(<<"1">>), LeafChannels6>>
ExtBody(p) == <<NodeHeader, ResultNode(p), ExtNode, LeafChannels6>>
ExtOnlyBody == <<NodeHeader, ExtNode, LeafChannels6>>
NoHeaderBody == <<ResultNode(<<"0", ".", "4", "2">>), LeafChannels6>>
NoAtomBody == <<NodeHeader, NodeResultNoAtom>>
HeaderOnlyBody == <<NodeHeader>>

Path_10_7 == [kind |-> "str", text |-> <<"s", "(", "1", "0", ",", "7", ")", ".", "s", "p", "x">>]
Path_9_9 == [kind |-> "Path", text |-> <<"d", "/", "(", "9", ",", "9", ")", ".", "s", "p", "x">>]
Path_none == [kind |-> "str", text |-> <<"s", ".", "s", "p", "x">>]

\* the files write_edx_to_hdf5 is called on and the mode of the HDF5 file
IngestInputs ==
    {[file |-> SpxFile(Path_10_7, TRUE, Doc(b)), mode |-> "a"] :
        b \in {PlainBody(<<"0", ".", "4", "2">>), FullBody(<<"0", ".", "4", "2">>),
               FullBody(<<"n", "/", "a">>), NoHeaderBody}}
    \cup {[file |-> SpxFile(Path_9_9, TRUE, Doc(b)), mode |-> "a"] :
        b \in {NoAtomBody, HeaderOnlyBody, ExtBody(<<"1">>), ExtOnlyBody,
               TextHeaderBody}}
    \cup {[file |-> SpxFile(Path_none, TRUE, Doc(PlainBody(<<"1">>))), mode |-> "a"],
          [file |-> SpxFile(Path_10_7, FALSE, ShortDoc), mode |-> "w"],
          [file |-> SpxFile(Path_9_9, TRUE, ShortDoc), mode |-> "a"],
          [file |-> SpxFile(Path_10_7, TRUE, Doc(PlainBody(<<"0", ".", "4", "2">>))), mode |-> "w"]}

NoPositionsCall == [called |-> FALSE, data_type |-> <<>>,
                    ret |-> [err |-> "", positions |-> <<>>]]

\* write_edx_to_hdf5(HDF5_path, filepath, mode) on the one store file
Ingest ==
    /\ ingest_count < MaxIngests
    /\ \E in \in IngestInputs :
          LET r == write_edx_to_hdf5(store, default_edx_dict, in.file, in.mode)
          IN  /\ store' = r.st
              /\ default_edx_dict' = r.dflt
              /\ ingest' = [called |-> TRUE, file |-> in.file, mode |-> in.mode, err |-> r.err,
                            scan |-> r.scan, pos |-> r.pos, writes |-> r.writes]
    /\ ingest_count' = ingest_count + 1
    /\ positions_call' = NoPositionsCall
    /\ UNCHANGED <<query_vars, geom_vars, visit_item, visit_ret, visit_explicit, visit_calls,
                   energy_call, grid_vars>>

DataTypes == {<<"E", "D", "X">>, <<"e", "d", "x">>, <<"M", "O", "K", "E">>}

\* get_all_positions(hdf5_file, data_type) on the store as it is now
GetAllPositions ==
    /\ ~positions_call.called
    /\ \E dt \in DataTypes :
          positions_call' = [called |-> TRUE, data_type |-> dt,
                             ret |-> get_all_positions(store, dt)]
    /\ UNCHANGED <<query_vars, geom_vars, visit_vars, energy_call, store, ingest, ingest_count,
                   grid_vars>>

\* ------------------------------------------------- get_position_units

N_origin == <<"(", "0", ".", "0", ",", "0", ".", "0", ")">>

NoUnits(e) == [err |-> e, x_pos |-> <<>>, y_pos |-> <<>>]

\* lines 102-105: the units attributes below <root>/(0.0,0.0)/instrument
PositionUnitsAt(st, instrument) ==
    IF \/ ~Exists(st, Append(instrument, D_x_pos))
       \/ ~Exists(st, Append(instrument, D_y_pos))
    THEN NoUnits("KeyError")
    ELSE IF \/ ~DictHas(st[Append(instrument, D_x_pos)].attrs, "units")
            \/ ~DictHas(st[Append(instrument, D_y_pos)].attrs, "units")
    THEN NoUnits("KeyError")
    ELSE [err |-> "",
          x_pos |-> DictGet(st[Append(instrument, D_x_pos)].attrs, "units"),
          y_pos |-> DictGet(st[Append(instrument, D_y_pos)].attrs, "units")]

\* lines 100-105 with the root group that make_group_path gave
UnitsBelow(st, root_group) ==
    IF root_group.err # "" THEN NoUnits(root_group.err)
    ELSE PositionUnitsAt(st, root_group.path \o <<N_origin, G_instrument>>)

\* lines 82-107
get_position_units(st, data_type) ==
    UnitsBelow(st, make_group_path(st, data_type, NoText, NoText, NoText))

\* ------------------------------------- the readers of one position's data

RECURSIVE FieldsIn(_, _, _)
\* the datasets directly below the group p, as name -> value
FieldsIn(st, p, names) ==
    IF names = <<>> THEN EmptyDict
    ELSE (IF st[Append(p, names[1])].kind = "dataset"
          THEN <<[k |-> names[1], v |-> st[Append(p, names[1])].value]>>
          ELSE <<>>)
         \o FieldsIn(st, p, Tail(names))

RECURSIVE UnitsIn(_, _, _)
\* the units of the datasets directly below the group p that carry some
UnitsIn(st, p, names) ==
    IF names = <<>> THEN EmptyDict
    ELSE (IF /\ st[Append(p, names[1])].kind = "dataset"
             /\ DictHas(st[Append(p, names[1])].attrs, "units")
          THEN <<[k |-> names[1], v |-> DictGet(st[Append(p, names[1])].attrs, "units")]>>
          ELSE <<>>)
         \o UnitsIn(st, p, Tail(names))

RECURSIVE SubFields(_, _, _)
\* the subgroups of p, as name -> (field -> value)
SubFields(st, p, names) ==
    IF names = <<>> THEN EmptyDict
    ELSE (IF st[Append(p, names[1])].kind = "group"
          THEN <<[k |-> names[1],
                  v |-> FieldsIn(st, Append(p, names[1]), Members(st, Append(p, names[1])))]>>
          ELSE <<>>)
         \o SubFields(st, p, Tail(names))

RECURSIVE SubUnits(_, _, _)
\* the subgroups of p, as name -> (field -> units)
SubUnits(st, p, names) ==
    IF names = <<>> THEN EmptyDict
    ELSE (IF st[Append(p, names[1])].kind = "group"
          THEN <<[k |-> names[1],
                  v |-> UnitsIn(st, Append(p, names[1]), Members(st, Append(p, names[1])))]>>
          ELSE <<>>)
         \o SubUnits(st, p, Tail(names))

\* composition and composition_units: element -> field -> value / units
get_edx_composition(st, group_path) ==
    [composition |-> SubFields(st, group_path, Members(st, group_path)),
     units       |-> SubUnits(st, group_path, Members(st, group_path))]

\* the results of a MOKE scan and their units: name -> value / units
get_moke_results(st, group_path) ==
    [value |-> FieldsIn(st, group_path, Members(st, group_path)),
     units |-> UnitsIn(st, group_path, Members(st, group_path))]

G_phases == <<"p", "h", "a", "s", "e", "s">>

\* the phases of an XRD scan, result_type="Phases": phase -> field -> value /
\* units, read below <results>/phases
get_xrd_results(st, group_path) ==
    [err    |-> IF Exists(st, Append(group_path, G_phases)) THEN "" ELSE "KeyError",
     phases |-> SubFields(st, Append(group_path, G_phases),
                          Members(st, Append(group_path, G_phases))),
     units  |-> SubUnits(st, Append(group_path, G_phases),
                         Members(st, Append(group_path, G_phases)))]

\* the measurement of one scan: name -> array, and name -> units
MeasurementAt(st, group_path) ==
    [data  |-> FieldsIn(st, group_path, Members(st, group_path)),
     units |-> UnitsIn(st, group_path, Members(st, group_path))]

get_edx_spectrum(st, group_path) == MeasurementAt(st, group_path)

get_moke_loop(st, group_path) == MeasurementAt(st, group_path)

get_xrd_pattern(st, group_path) == MeasurementAt(st, group_path)

\* ------------------------------------------------- the xarray datasets

NaN == [nan |-> TRUE]
IsNaN(v) == DOMAIN v = {"nan"}
IsArr(v) == DOMAIN v = {"arr"}

Abs(v) == IF v < 0 THEN -v ELSE v

\* xr.DataArray(np.nan, coords=[y_vals, x_vals(, axis)]): every cell is
\* not-a-number; axis is NoText for an array of scalars
NewArray(y_vals, x_vals, axis) ==
    [cells |-> [c \in y_vals \X x_vals |-> NaN], axis |-> axis, units |-> NoText]

\* the state of an assembly: the error raised if any, the variables of the
\* dataset, the cells assigned so far and the positions the loops came to
Fail(g, e) == [g EXCEPT !.err = e]

Then(g, F(_)) == IF g.err # "" THEN g ELSE F(g)

See(g, pass, x, y, skipped) ==
    [g EXCEPT !.seen = Append(@, [pass |-> pass, x |-> x, y |-> y, skipped |-> skipped])]

\* key in dataset
HasVar(vs, key) == DictHas(vs, key)

\* data[key].loc[{"y": y, "x": x}] = value on the variables vs
SetLoc(g, pass, vs, key, x, y, value) ==
    IF <<y, x>> \notin DOMAIN DictGet(vs, key).cells THEN Fail(g, "KeyError")
    ELSE IF IsStr(value) THEN Fail(g, "ValueError")
    ELSE IF IsArr(value) /\ DictGet(vs, key).axis = NoText THEN Fail(g, "ValueError")
    ELSE IF IsArr(value) /\ Len(value.arr) \notin {Len(DictGet(vs, key).axis.arr), 1}
    THEN Fail(g, "ValueError")
    ELSE [g EXCEPT !.log = Append(@, [pass |-> pass, key |-> key, x |-> x, y |-> y,
                                      value |-> value])]

\* an array of one element is broadcast along the axis of the variable
Broadcast(value, axis) ==
    IF IsArr(value) /\ axis # NoText /\ Len(value.arr) = 1
    THEN Arr(Repeat(value.arr, Len(axis.arr)))
    ELSE value

\* the variables after that assignment
CellSet(vs, key, x, y, value) ==
    DictSet(vs, key, [DictGet(vs, key) EXCEPT
                         !.cells[<<y, x>>] = Broadcast(value, DictGet(vs, key).axis)])

\* data[key].attrs["units"] = units
UnitsSet(vs, key, units) ==
    DictSet(vs, key, [DictGet(vs, key) EXCEPT !.units = Text(units)])

XVals(positions) == {positions[i][1] : i \in 1..Len(positions)}
YVals(positions) == {positions[i][2] : i \in 1..Len(positions)}

\* ----------------------------------------------------- get_full_dataset

EdgeSum == 60

N_Results == <<"R", "e", "s", "u", "l", "t", "s">>
N_Measurement == <<"M", "e", "a", "s", "u", "r", "e", "m", "e", "n", "t">>
N_EDX == <<"E", "D", "X">>
N_MOKE == <<"M", "O", "K", "E">>
N_XRD == <<"X", "R", "D">>

\* the comparison of get_measurement_data in get_full_dataset
EdgeOfDatasetLoose(x, y, exclude_wafer_edges) ==
    Abs(x) + Abs(y) > EdgeSum * Scale /\ exclude_wafer_edges

\* lines 137, 171 and 194: the positions the three loops pass over
EdgeOfDataset(x, y, exclude_wafer_edges) ==
    Abs(x) + Abs(y) >= EdgeSum * Scale /\ exclude_wafer_edges

\* data[key] = xr.DataArray(np.nan, coords=[y_vals, x_vals], dims=["y", "x"])
CreateVar(g, key) ==
    [g EXCEPT !.vars = DictSet(@, key, NewArray(g.y_vals, g.x_vals, NoText))]

\* an assignment to a cell of the dataset
Assign(g, pass, key, x, y, value) ==
    Then(SetLoc(g, pass, g.vars, key, x, y, value),
         LAMBDA h : [h EXCEPT !.vars = CellSet(@, key, x, y, value)])

\* data[key].attrs["units"] = units, KeyError without such a variable
AttachGridUnits(g, key, units) ==
    IF ~HasVar(g.vars, key) THEN Fail(g, "KeyError")
    ELSE [g EXCEPT !.vars = UnitsSet(@, key, units)]

\* lines 152-155: the array is made once a number is met (math.isnan of
\* what is not a float raises TypeError)
CreateIfNumber(g, key, value) ==
    IF HasVar(g.vars, key) THEN g
    ELSE IF IsNaN(value) THEN g
    ELSE IF ~IsNum(value) THEN Fail(g, "TypeError")
    ELSE CreateVar(g, key)

\* lines 156-157
AssignIfVar(g, pass, key, x, y, value) ==
    IF HasVar(g.vars, key) THEN Assign(g, pass, key, x, y, value) ELSE g

\* lines 160-163
CompositionUnits(g, key, element, units) ==
    IF ~DictHas(units, element) THEN Fail(g, "KeyError")
    ELSE IF DictHas(DictGet(units, element), N_AtomPercent)
    THEN AttachGridUnits(g, key, DictGet(DictGet(units, element), N_AtomPercent))
    ELSE g

\* lines 146-150: the key and the value of one element
AtomPercentOf(fields) ==
    IF DictHas(fields, N_AtomPercent) THEN DictGet(fields, N_AtomPercent) ELSE NaN

\* lines 145-163: one element of the composition at (x, y)
EdxElement(g, element, fields, units, x, y) ==
    Then(Then(CreateIfNumber(g, element \o <<" ", "C", "o", "m", "p", "o", "s", "i", "t", "i", "o", "n">>, AtomPercentOf(fields)),
              LAMBDA h : AssignIfVar(h, N_EDX, element \o <<" ", "C", "o", "m", "p", "o", "s", "i", "t", "i", "o", "n">>, x, y,
                                     AtomPercentOf(fields))),
         LAMBDA h : CompositionUnits(h, element \o <<" ", "C", "o", "m", "p", "o", "s", "i", "t", "i", "o", "n">>, element, units))

RECURSIVE EdxElements(_, _, _, _, _)
\* line 145: for element in composition
EdxElements(g, composition, units, x, y) ==
    IF g.err # "" \/ composition = <<>> THEN g
    ELSE EdxElements(EdxElement(g, composition[1].k, composition[1].v, units, x, y),
                     Tail(composition), units, x, y)

\* lines 143-163 with the group path of the position
EdxResults(g, st, group_path, x, y) ==
    IF group_path.err # "" THEN Fail(g, group_path.err)
    ELSE EdxElements(g, get_edx_composition(st, group_path.path).composition,
                     get_edx_composition(st, group_path.path).units, x, y)

\* lines 136-163: one position of the EDX loop
EdxPosition(g, st, x, y, exclude_wafer_edges) ==
    IF EdgeOfDataset(x, y, exclude_wafer_edges) THEN See(g, N_EDX, x, y, TRUE)
    ELSE EdxResults(See(g, N_EDX, x, y, FALSE), st,
                    make_group_path(st, N_EDX, Text(N_Results), Num(x), Num(y)), x, y)

RECURSIVE EdxPass(_, _, _, _)
EdxPass(g, st, positions, exclude_wafer_edges) ==
    IF g.err # "" \/ positions = <<>> THEN g
    ELSE EdxPass(EdxPosition(g, st, positions[1][1], positions[1][2], exclude_wafer_edges),
                 st, Tail(positions), exclude_wafer_edges)

RECURSIVE MokeCreate(_, _)
\* lines 179-183: an array for every result that has none yet
MokeCreate(g, moke_value) ==
    IF moke_value = <<>> THEN g
    ELSE MokeCreate(IF HasVar(g.vars, moke_value[1].k) THEN g
                    ELSE CreateVar(g, moke_value[1].k),
                    Tail(moke_value))

\* lines 186-187: the value at (x, y) and the units of the result
MokeValue(g, key, value, moke_units, x, y) ==
    Then(Assign(g, N_MOKE, key, x, y, value),
         LAMBDA h : IF ~DictHas(moke_units, key) THEN Fail(h, "KeyError")
                    ELSE AttachGridUnits(h, key, DictGet(moke_units, key)))

RECURSIVE MokeValues(_, _, _, _, _)
\* line 185: for value in moke_value
MokeValues(g, moke_value, moke_units, x, y) ==
    IF g.err # "" \/ moke_value = <<>> THEN g
    ELSE MokeValues(MokeValue(g, moke_value[1].k, moke_value[1].v, moke_units, x, y),
                    Tail(moke_value), moke_units, x, y)

\* lines 173-187 with the group path of the position
MokeResults(g, st, group_path, x, y) ==
    IF group_path.err # "" THEN Fail(g, group_path.err)
    ELSE MokeValues(MokeCreate(g, get_moke_results(st, group_path.path).value),
                    get_moke_results(st, group_path.path).value,
                    get_moke_results(st, group_path.path).units, x, y)

\* lines 170-187: one position of the MOKE loop
MokePosition(g, st, x, y, exclude_wafer_edges) ==
    IF EdgeOfDataset(x, y, exclude_wafer_edges) THEN See(g, N_MOKE, x, y, TRUE)
    ELSE MokeResults(See(g, N_MOKE, x, y, FALSE), st,
                     make_group_path(st, N_MOKE, Text(N_Results), Num(x), Num(y)), x, y)

RECURSIVE MokeLoop(_, _, _, _)
MokeLoop(g, st, positions, exclude_wafer_edges) ==
    IF g.err # "" \/ positions = <<>> THEN g
    ELSE MokeLoop(MokePosition(g, st, positions[1][1], positions[1][2], exclude_wafer_edges),
                  st, Tail(positions), exclude_wafer_edges)

\* lines 166-187: the MOKE positions are looked up, then looped over
MokePass(g, st, moke_positions, exclude_wafer_edges) ==
    IF g.err # "" THEN g
    ELSE IF moke_positions.err # "" THEN Fail(g, moke_positions.err)
    ELSE MokeLoop(g, st, moke_positions.positions, exclude_wafer_edges)

\* str(value) of what h5py read: the bytes of a string dataset, or a float
PyStrOf(value) ==
    IF IsStr(value) THEN <<"b", "'">> \o value.str \o <<"'">>
    ELSE IF value.num % 10 = 0 THEN FloatStr(value.num)
    ELSE (IF value.num < 0 THEN <<"-">> ELSE <<>>)
         \o NatToStr(Abs(value.num) \div Scale) \o <<".">>
         \o NatToStr((Abs(value.num) % Scale) \div 10) \o NatToStr(Abs(value.num) % 10)

\* sub in s
Contains(s, sub) == \E i \in 1..Len(s) : IsMatchAt(s, sub, i)

N_phase_fraction == <<"p", "h", "a", "s", "e", "_", "f", "r", "a", "c", "t", "i", "o", "n">>
LatticeFields == <<N_phase_fraction, <<"A">>, <<"B">>, <<"C">>>>
LatticeLabels(phase) ==
    <<phase \o <<" ", "P", "h", "a", "s", "e", " ", "F", "r", "a", "c", "t", "i", "o", "n">>, phase \o <<" ", "L", "a", "t", "t", "i", "c", "e", " ", "P", "a", "r", "a", "m", "e", "t", "e", "r", " ", "A">>,
      phase \o <<" ", "L", "a", "t", "t", "i", "c", "e", " ", "P", "a", "r", "a", "m", "e", "t", "e", "r", " ", "B">>, phase \o <<" ", "L", "a", "t", "t", "i", "c", "e", " ", "P", "a", "r", "a", "m", "e", "t", "e", "r", " ", "C">>>>

\* float(text) for the text before "+-" without the b' of the bytes
LatticeFloat(text) ==
    IF PyFloat(text).ok THEN [err |-> "", v |-> Num(PyFloat(text).v)]
    ELSE [err |-> "ValueError", v |-> NaN]

\* lines 210-229: the value of one field of a phase. The text of an
\* undefined phase fraction stays in phase_fraction (line 211), the lattice
\* parameters stay not-a-number; only C loses a closing quote (line 228)
LatticeValue(fields, i) ==
    IF ~DictHas(fields, LatticeFields[i]) THEN [err |-> "", v |-> NaN]
    ELSE IF Contains(PyStrOf(DictGet(fields, LatticeFields[i])), <<"U", "N", "D", "E", "F", "'">>)
    THEN [err |-> "",
          v |-> IF i = 1 THEN Str(PyStrOf(DictGet(fields, LatticeFields[i]))) ELSE NaN]
    ELSE IF i = 4
    THEN LatticeFloat(PyReplace(PyReplace(
             First(PySplit(PyStrOf(DictGet(fields, LatticeFields[i])), <<"+", "-">>)),
             <<"b", "'">>, <<>>), <<"'">>, <<>>))
    ELSE LatticeFloat(PyReplace(
             First(PySplit(PyStrOf(DictGet(fields, LatticeFields[i])), <<"+", "-">>)),
             <<"b", "'">>, <<>>))

\* lines 241-249: one of the four labels of a phase
LatticeLabel(g, label, value, x, y) ==
    Then(CreateIfNumber(g, label, value),
         LAMBDA h : AssignIfVar(h, N_XRD, label, x, y, value))

RECURSIVE LatticeLoop(_, _, _, _, _, _)
\* line 241: for i in range(len(lattice_labels))
LatticeLoop(g, phase, fields, i, x, y) ==
    IF g.err # "" \/ i > Len(LatticeFields) THEN g
    ELSE LatticeLoop(LatticeLabel(g, LatticeLabels(phase)[i], LatticeValue(fields, i).v, x, y),
                     phase, fields, i + 1, x, y)

\* the first of the four conversions that raises, "" when none does
LatticeError(fields) ==
    IF \E i \in 1..Len(LatticeFields) : LatticeValue(fields, i).err # ""
    THEN LatticeValue(fields, CHOOSE i \in 1..Len(LatticeFields) :
                          /\ LatticeValue(fields, i).err # ""
                          /\ \A j \in 1..(i - 1) : LatticeValue(fields, j).err = "").err
    ELSE ""

\* lines 204-249: one phase at (x, y)
XrdPhase(g, phase, fields, x, y) ==
    IF LatticeError(fields) # "" THEN Fail(g, LatticeError(fields))
    ELSE LatticeLoop(g, phase, fields, 1, x, y)

RECURSIVE XrdPhases(_, _, _, _)
\* line 204: for phase in xrd_phases.keys()
XrdPhases(g, xrd_phases, x, y) ==
    IF g.err # "" \/ xrd_phases = <<>> THEN g
    ELSE XrdPhases(XrdPhase(g, xrd_phases[1].k, xrd_phases[1].v, x, y),
                   Tail(xrd_phases), x, y)

\* xrd_phases and xrd_units keep what the last position gave them
Bound(g, results) ==
    [g EXCEPT !.last = [bound |-> TRUE, phases |-> results.phases, units |-> results.units]]

\* lines 196-249 with the group path of the position
XrdResults(g, st, group_path, x, y) ==
    IF group_path.err # "" THEN Fail(g, group_path.err)
    ELSE IF get_xrd_results(st, group_path.path).err # ""
    THEN Fail(g, get_xrd_results(st, group_path.path).err)
    ELSE XrdPhases(Bound(g, get_xrd_results(st, group_path.path)),
                   get_xrd_results(st, group_path.path).phases, x, y)

\* lines 193-249: one position of the XRD loop
XrdPosition(g, st, x, y, exclude_wafer_edges) ==
    IF EdgeOfDataset(x, y, exclude_wafer_edges) THEN See(g, N_XRD, x, y, TRUE)
    ELSE XrdResults(See(g, N_XRD, x, y, FALSE), st,
                    make_group_path(st, N_XRD, Text(N_Results), Num(x), Num(y)), x, y)

RECURSIVE XrdLoop(_, _, _, _)
XrdLoop(g, st, positions, exclude_wafer_edges) ==
    IF g.err # "" \/ positions = <<>> THEN g
    ELSE XrdLoop(XrdPosition(g, st, positions[1][1], positions[1][2], exclude_wafer_edges),
                 st, Tail(positions), exclude_wafer_edges)

\* lines 190-249: the XRD positions are looked up, then looped over
XrdPass(g, st, xrd_positions, exclude_wafer_edges) ==
    IF g.err # "" THEN g
    ELSE IF xrd_positions.err # "" THEN Fail(g, xrd_positions.err)
    ELSE XrdLoop(g, st, xrd_positions.positions, exclude_wafer_edges)

\* line 258-259: phase_keys and lattice_labels are those of the last phase
\* the loops came to, whichever phase the units are looked up for
LatticeUnit(g, phase, i) ==
    IF LatticeFields[i] \notin DictKeys(Last(g.last.phases).v) THEN g
    ELSE IF ~DictHas(g.last.units, phase) THEN Fail(g, "KeyError")
    ELSE IF ~DictHas(DictGet(g.last.units, phase), LatticeFields[i]) THEN g
    ELSE AttachGridUnits(g, LatticeLabels(Last(g.last.phases).k)[i],
                         DictGet(DictGet(g.last.units, phase), LatticeFields[i]))

RECURSIVE LatticeUnits(_, _, _)
\* lines 256-259: the two loops, phases[n] and field i
LatticeUnits(g, n, i) ==
    IF g.err # "" \/ n > Len(g.last.phases) THEN g
    ELSE IF i > Len(LatticeFields) THEN LatticeUnits(g, n + 1, 1)
    ELSE LatticeUnits(LatticeUnit(g, g.last.phases[n].k, i), n, i + 1)

\* lines 256-259: xrd_phases is unbound when no XRD position was read
XrdUnits(g) ==
    IF g.err # "" THEN g
    ELSE IF ~g.last.bound THEN Fail(g, "UnboundLocalError")
    ELSE LatticeUnits(g, 1, 1)

\* lines 262-263: the x and y coordinates exist once a variable does
AxisUnits(g, position_units) ==
    IF g.err # "" THEN g
    ELSE IF g.vars = EmptyDict THEN Fail(g, "KeyError")
    ELSE [g EXCEPT !.x_units = Text(position_units.x_pos),
                   !.y_units = Text(position_units.y_pos)]

\* data = xr.Dataset() with the axes of the EDX positions
EmptyGrid(positions) ==
    [err |-> "", vars |-> EmptyDict, log |-> <<>>, seen |-> <<>>,
     y_vals |-> YVals(positions), x_vals |-> XVals(positions),
     last |-> [bound |-> FALSE, phases |-> <<>>, units |-> <<>>],
     x_units |-> NoText, y_units |-> NoText]

\* lines 136-265
Assemble(st, positions, position_units, exclude_wafer_edges) ==
    AxisUnits(
        XrdUnits(
            XrdPass(
                MokePass(EdxPass(EmptyGrid(positions), st, positions, exclude_wafer_edges),
                         st, get_all_positions(st, N_MOKE), exclude_wafer_edges),
                st, get_all_positions(st, N_XRD), exclude_wafer_edges)),
        position_units)

\* lines 127-128 raised, or the assembly
AssembleFrom(st, positions, position_units, exclude_wafer_edges) ==
    IF positions.err # "" THEN Fail(EmptyGrid(<<>>), positions.err)
    ELSE IF position_units.err # "" THEN Fail(EmptyGrid(<<>>), position_units.err)
    ELSE Assemble(st, positions.positions, position_units, exclude_wafer_edges)

\* lines 110-265
get_full_dataset(st, exclude_wafer_edges) ==
    AssembleFrom(st, get_all_positions(st, N_EDX), get_position_units(st, N_EDX),
                 exclude_wafer_edges)

\* -------------------------------------------------- get_measurement_data

\* line 469
EdgeOfMeasurement(x, y, exclude_wafer_edges) ==
    Abs(x) + Abs(y) > EdgeSum * Scale /\ exclude_wafer_edges

NoMeasurement(e) == [err |-> e, data |-> EmptyDict, units |-> EmptyDict]

\* the reader's answer, or the error of make_group_path
MeasurementFrom(st, group_path) ==
    IF group_path.err # "" THEN NoMeasurement(group_path.err)
    ELSE [err |-> "", data |-> MeasurementAt(st, group_path.path).data,
          units |-> MeasurementAt(st, group_path.path).units]

\* lines 294-323: data and data_units are bound in one of three branches
search_measurement_data_from_type(st, data_type, x_pos, y_pos) ==
    IF PyLower(data_type) = <<"e", "d", "x">>
    THEN MeasurementFrom(st, make_group_path(st, N_EDX, Text(N_Measurement), Num(x_pos), Num(y_pos)))
    ELSE IF PyLower(data_type) = <<"m", "o", "k", "e">>
    THEN MeasurementFrom(st, make_group_path(st, N_MOKE, Text(N_Measurement), Num(x_pos), Num(y_pos)))
    ELSE IF PyLower(data_type) = <<"x", "r", "d">>
    THEN MeasurementFrom(st, make_group_path(st, N_XRD, Text(N_Measurement), Num(x_pos), Num(y_pos)))
    ELSE NoMeasurement("UnboundLocalError")

\* lines 419-424: which of the three datasets; "" when no branch binds one
get_current_dataset(data_type) ==
    IF PyLower(data_type) = <<"e", "d", "x">> THEN N_EDX
    ELSE IF PyLower(data_type) = <<"m", "o", "k", "e">> THEN N_MOKE
    ELSE IF PyLower(data_type) = <<"x", "r", "d">> THEN N_XRD
    ELSE <<>>

\* the variables of the dataset named current
VarsOf(m, current) == DictGet(m.datasets, current)

\* lines 351-354: the array of a key is made with the key's first value as
\* its third axis
MeasurementCreate(m, current, key, value) ==
    IF HasVar(VarsOf(m, current), key) THEN m
    ELSE IF ~IsArr(value) THEN Fail(m, "ValueError")
    ELSE [m EXCEPT !.datasets =
             DictSet(@, current,
                     DictSet(VarsOf(m, current), key, NewArray(m.y_vals, m.x_vals, value)))]

\* line 356 if a value of another length than the axis were passed over
MeasurementAssignDropping(m, current, key, x, y, value) ==
    IF /\ IsArr(value)
       /\ Len(value.arr) # Len(DictGet(VarsOf(m, current), key).axis.arr)
    THEN m
    ELSE Then(SetLoc(m, current, VarsOf(m, current), key, x, y, value),
              LAMBDA h : [h EXCEPT !.datasets =
                             DictSet(@, current, CellSet(VarsOf(h, current), key, x, y, value))])

\* line 356
MeasurementAssign(m, current, key, x, y, value) ==
    Then(SetLoc(m, current, VarsOf(m, current), key, x, y, value),
         LAMBDA h : [h EXCEPT !.datasets =
                        DictSet(@, current, CellSet(VarsOf(h, current), key, x, y, value))])

RECURSIVE add_measurement_data(_, _, _, _, _)
\* lines 350-356; dataset is given by its name, x_vals and y_vals are in m
add_measurement_data(m, current, measurement, x, y) ==
    IF m.err # "" \/ measurement = <<>> THEN m
    ELSE add_measurement_data(
             Then(MeasurementCreate(m, current, measurement[1].k, measurement[1].v),
                  LAMBDA h : MeasurementAssign(h, current, measurement[1].k, x, y,
                                               measurement[1].v)),
             current, Tail(measurement), x, y)

\* lines 471-479 with the measurement that was found
AddFound(m, found, data_type, x, y) ==
    IF found.err # "" THEN Fail(m, found.err)
    ELSE add_measurement_data(
             [m EXCEPT !.current = get_current_dataset(data_type),
                       !.units = [bound |-> TRUE, of |-> found.units]],
             get_current_dataset(data_type), found.data, x, y)

\* lines 468-479: one position of the loop
MeasurementPosition(m, st, data_type, x, y, exclude_wafer_edges) ==
    IF EdgeOfMeasurement(x, y, exclude_wafer_edges) THEN See(m, data_type, x, y, TRUE)
    ELSE AddFound(See(m, data_type, x, y, FALSE),
                  search_measurement_data_from_type(st, data_type, x, y), data_type, x, y)

RECURSIVE MeasurementLoop(_, _, _, _, _)
MeasurementLoop(m, st, data_type, positions, exclude_wafer_edges) ==
    IF m.err # "" \/ positions = <<>> THEN m
    ELSE MeasurementLoop(
             MeasurementPosition(m, st, data_type, positions[1][1], positions[1][2],
                                 exclude_wafer_edges),
             st, data_type, Tail(positions), exclude_wafer_edges)

RECURSIVE ScanUnits(_, _, _)
\* lines 487-490: the units of the keys that are variables of the dataset
ScanUnits(m, data_type, units) ==
    IF units = <<>> THEN m
    ELSE ScanUnits(
             IF PyLower(data_type) # <<"m", "o", "k", "e">> /\ HasVar(VarsOf(m, m.current), units[1].k)
             THEN [m EXCEPT !.datasets =
                      DictSet(@, m.current,
                              UnitsSet(VarsOf(m, m.current), units[1].k, units[1].v))]
             ELSE m,
             data_type, Tail(units))

\* lines 482-490: current_dataset and units are those of the last position
\* that was read, of this data type or of one before it
PositionUnits(m, data_type, position_units) ==
    IF m.err # "" THEN m
    ELSE IF position_units.err # "" THEN Fail(m, position_units.err)
    ELSE IF m.current = <<>> THEN Fail(m, "UnboundLocalError")
    ELSE IF VarsOf(m, m.current) = EmptyDict THEN Fail(m, "KeyError")
    ELSE ScanUnits([m EXCEPT !.axis_units =
                       DictSet(@, m.current, [x |-> position_units.x_pos,
                                              y |-> position_units.y_pos])],
                   data_type, m.units.of)

\* lines 462-466: the axes of this data type
WithAxes(m, positions) ==
    [m EXCEPT !.y_vals = YVals(positions), !.x_vals = XVals(positions)]

\* lines 462-490 for one data type
MeasurementType(m, st, data_type, positions, exclude_wafer_edges) ==
    IF positions.err # "" THEN Fail(m, positions.err)
    ELSE PositionUnits(
             MeasurementLoop(WithAxes(m, positions.positions), st, data_type,
                             positions.positions, exclude_wafer_edges),
             data_type, get_position_units(st, data_type))

RECURSIVE MeasurementTypes(_, _, _, _)
\* line 461: for data_type in datatypes
MeasurementTypes(m, st, datatypes, exclude_wafer_edges) ==
    IF m.err # "" \/ datatypes = <<>> THEN m
    ELSE MeasurementTypes(
             MeasurementType(m, st, datatypes[1], get_all_positions(st, datatypes[1]),
                             exclude_wafer_edges),
             st, Tail(datatypes), exclude_wafer_edges)

\* lines 456-459: three empty datasets, nothing bound yet
EmptyTree ==
    [err |-> "", ret |-> "tree",
     datasets |-> <<[k |-> N_EDX, v |-> EmptyDict], [k |-> N_MOKE, v |-> EmptyDict],
                    [k |-> N_XRD, v |-> EmptyDict]>>,
     axis_units |-> EmptyDict, log |-> <<>>, seen |-> <<>>, y_vals |-> {}, x_vals |-> {},
     current |-> <<>>, units |-> [bound |-> FALSE, of |-> EmptyDict]]

\* lines 446-499; an unknown data type is answered with 1
get_measurement_data(st, data_type, exclude_wafer_edges) ==
    IF PyLower(data_type) = <<"a", "l", "l">>
    THEN MeasurementTypes(EmptyTree, st, <<N_EDX, N_MOKE, N_XRD>>, exclude_wafer_edges)
    ELSE IF PyLower(data_type) \notin {<<"e", "d", "x">>, <<"m", "o", "k", "e">>, <<"x", "r", "d">>}
    THEN [EmptyTree EXCEPT !.ret = "1"]
    ELSE MeasurementTypes(EmptyTree, st, <<data_type>>, exclude_wafer_edges)

\* ------------------------------------------- the grid calls, as called

\* the positions of the stores: the centre, the middle of an edge, a corner,
\* and one position either side of the cut
GridPool == {<<0, 0>>, <<30, 30>>, <<40, 0>>, <<40, 40>>, <<-35, -30>>}

\* <root>/(x,y)/instrument with the position in mm
WithInstrument(st, root, x, y) ==
    LET inst == <<root, PositionGroup(x * Scale, y * Scale), G_instrument>>
        a == H5CreateGroup(st, inst).st
        b == H5SetData(a, Append(inst, D_x_pos), Num(x * Scale)).st
        c == H5SetData(b, Append(inst, D_y_pos), Num(y * Scale)).st
        d == H5SetAttr(c, Append(inst, D_x_pos), "units", <<"m", "m">>).st
    IN  H5SetAttr(d, Append(inst, D_y_pos), "units", <<"m", "m">>).st

\* <root>/(x,y)/measurement/counts
WithCounts(st, root, x, y) ==
    LET p == <<root, PositionGroup(x * Scale, y * Scale), G_measurement, D_counts>>
        a == H5CreateGroup(st, SubSeq(p, 1, 3)).st
        b == H5SetData(a, p, Arr(<<Abs(x), Abs(y), 1>>)).st
    IN  H5SetAttr(b, p, "units", <<"c", "p", "s">>).st

\* <root>/(x,y)/results/<group>/<field>, with units if any
WithResult(st, root, x, y, group, field, value, units) ==
    LET g == <<root, PositionGroup(x * Scale, y * Scale), G_results>> \o group
        a == IF Exists(st, g) THEN st ELSE H5CreateGroup(st, g).st
        b == H5SetData(a, Append(g, field), value).st
    IN  IF units = <<>> THEN b ELSE H5SetAttr(b, Append(g, field), "units", units).st

N_ElementFe == <<"E", "l", "e", "m", "e", "n", "t", " ", "F", "e">>

\* one scan of a category at (x, y)
WithScan(st, root, x, y) ==
    LET s == WithCounts(WithInstrument(st, root, x, y), root, x, y)
    IN  IF root = N_EDX
        THEN WithResult(WithResult(s, root, x, y, <<N_ElementFe>>, N_AtomPercent,
                                   Num((50 + x) * Scale), <<"a", "t", ".", "%">>),
                        root, x, y, <<N_ElementFe>>, N_MassPercent, Num(60 * Scale), <<"m", "a", "s", "s", ".", "%">>)
        ELSE IF root = N_MOKE
        THEN WithResult(s, root, x, y, <<>>, <<"c", "o", "e", "r", "c", "i", "v", "i", "t", "y">>, Num((100 + y) * Scale), <<"T">>)
        ELSE WithResult(WithResult(s, root, x, y, <<G_phases, <<"f", "c", "c">>>>, <<"A">>,
                                   Str(<<"4", ".", "0", "5", "+", "-", "0", ".", "0", "1">>), <<"A">>),
                        root, x, y, <<G_phases, <<"f", "c", "c">>>>, <<"C">>,
                        Str(IF x = 0 THEN <<"U", "N", "D", "E", "F">> ELSE <<"4", ".", "1", "+", "-", "0", ".", "0", "2">>), <<>>)

RECURSIVE WithScans(_, _, _)
\* the scans of a category that is there, one position after the other
WithScans(st, root, positions) ==
    IF positions = <<>> \/ ~Exists(st, <<root>>) THEN st
    ELSE WithScans(WithScan(st, root, positions[1][1], positions[1][2]), root,
                   Tail(positions))

\* a category with its HT_type and a scan at each of the positions
WithCategory(st, root, positions) ==
    H5SetAttr(WithScans(H5CreateGroup(st, <<root>>).st, root, SortPairs(positions)),
              <<root>>, "HT_type", PyLower(root)).st

\* the stores the grid calls read: the EDX scans hold the centre or all but
\* the centre; MOKE and XRD were scanned at the same positions, at two of
\* them, or not at all
EdxPositionSets == {S \in SUBSET GridPool : <<0, 0>> \in S} \cup {GridPool \ {<<0, 0>>}}
OtherPositionSets(S) == {S, S \cap {<<0, 0>>, <<30, 30>>}}

GridStores ==
    {WithCategory(EmptyStore, N_EDX, S) : S \in EdxPositionSets}
    \cup UNION {{WithCategory(WithCategory(WithCategory(EmptyStore, N_EDX, S), N_MOKE, M),
                              N_XRD, S) : M \in OtherPositionSets(S)} :
                   S \in EdxPositionSets}

\* <root>/(x,y)/measurement/counts holding the array a instead
WithCountsOf(st, root, x, y, a) ==
    [st EXCEPT ![<<root, PositionGroup(x * Scale, y * Scale), G_measurement, D_counts>>].value
                   = Arr(a)]

\* EDX stores whose spectrum at (40, 0) is shorter than the one at the centre
RaggedStores ==
    {WithCountsOf(WithCategory(EmptyStore, N_EDX, {<<0, 0>>, <<40, 0>>, <<30, 30>>}),
                  N_EDX, 40, 0, a) : a \in {<<7, 7>>, <<7>>}}

\* all three categories scanned at the centre and at (40, 0); the XRD scans
\* hold a second phase, or the EDX scan at (40, 0) records another unit
CentreAndEdge ==
    WithCategory(WithCategory(WithCategory(EmptyStore, N_EDX, {<<0, 0>>, <<40, 0>>}),
                              N_MOKE, {<<0, 0>>, <<40, 0>>}),
                 N_XRD, {<<0, 0>>, <<40, 0>>})

WithSecondPhase(st, x) ==
    WithResult(st, N_XRD, x, 0, <<G_phases, <<"b", "c", "c">>>>, <<"A">>,
               Str(<<"3", ".", "0", "+", "-", "0", ".", "1">>), <<"A">>)

TwoPhaseStore == WithSecondPhase(WithSecondPhase(CentreAndEdge, 0), 40)

MixedUnitsStore ==
    H5SetAttr(CentreAndEdge,
              <<N_EDX, PositionGroup(40 * Scale, 0), G_results, N_ElementFe, N_AtomPercent>>,
              "units", <<"%">>).st

UnitStores == {TwoPhaseStore, MixedUnitsStore}

NoFullCall == [called |-> FALSE, exclude_wafer_edges |-> FALSE, ret |-> EmptyGrid(<<>>)]

NoMeasurementCall ==
    [called |-> FALSE, data_type |-> <<>>, exclude_wafer_edges |-> FALSE, ret |-> EmptyTree]

GetFullDataset ==
    /\ ~full_call.called
    /\ \E exclude_wafer_edges \in BOOLEAN :
          full_call' = [called |-> TRUE, exclude_wafer_edges |-> exclude_wafer_edges,
                        ret |-> get_full_dataset(store, exclude_wafer_edges)]
    /\ UNCHANGED <<query_vars, geom_vars, visit_vars, ingest_vars, measurement_call>>

MeasurementDataTypes == {N_EDX, <<"m", "o", "k", "e">>, <<"x", "r", "d">>, <<"a", "l", "l">>, <<"X", "P", "S">>}

GetMeasurementData ==
    /\ ~measurement_call.called
    /\ \E data_type \in MeasurementDataTypes, exclude_wafer_edges \in BOOLEAN :
          measurement_call' =
              [called |-> TRUE, data_type |-> data_type,
               exclude_wafer_edges |-> exclude_wafer_edges,
               ret |-> get_measurement_data(store, data_type, exclude_wafer_edges)]
    /\ UNCHANGED <<query_vars, geom_vars, visit_vars, ingest_vars, full_call>>

\* ------------------------------------------- create_simplified_dataset

group_list == {<<"e", "d", "x">>, <<"m", "o", "k", "e">>, <<"x", "r", "d">>}

GridStart == -40
GridStop == 45
GridStep == 5

\* range(-40, 45, 5)
GridAxis ==
    [i \in 1..((GridStop - GridStart + GridStep - 1) \div GridStep) |->
        GridStart + (i - 1) * GridStep]

\* "({:.1f},{:.1f})".format(float(x), float(y))
CoordName(x, y) == <<"(">> \o FloatStr(x * Scale) \o <<",">> \o FloatStr(y * Scale) \o <<")">>

\* lines 539-543: x is the outer loop, y the inner one
coord_list ==
    [n \in 1..(Len(GridAxis) * Len(GridAxis)) |->
        CoordName(GridAxis[((n - 1) \div Len(GridAxis)) + 1],
                  GridAxis[((n - 1) % Len(GridAxis)) + 1])]

saving_result_list == <<<<"A">>, <<"B">>, <<"C">>, N_phase_fraction>>

N_coercivity_m0 == <<"c", "o", "e", "r", "c", "i", "v", "i", "t", "y", "_", "m", "0">>
N_mean == <<"m", "e", "a", "n">>
N_CdTe == <<"C", "d", "T", "e">>
N_CdTe_integrate == <<"C", "d", "T", "e", "_", "i", "n", "t", "e", "g", "r", "a", "t", "e">>
U_Tesla == <<"T", "e", "s", "l", "a", " ", "(", "T", ")">>

RECURSIVE SetAttrs(_, _, _)
\* node[name].attrs[k] = v, one after the other
SetAttrs(r, p, attrs) ==
    IF r.err # "" \/ attrs = <<>> THEN r
    ELSE SetAttrs(H5SetAttr(r.st, p, attrs[1].k, attrs[1].v), p, Tail(attrs))

\* node.create_dataset(name, data=v) followed by its attributes
SaveField(save, coord, name, v, attrs) ==
    SetAttrs(H5SetData(save, <<coord, name>>, v), <<coord, name>>, attrs)

UnitsAndType(units, datatype) ==
    <<[k |-> "units", v |-> units], [k |-> "HT_type", v |-> datatype]>>

\* lines 568-581: x_pos or y_pos of the new node with the units of the source
SavePosition(src, save, instrument, coord, name) ==
    IF ~Exists(src, Append(instrument, name)) THEN Raise(save, "KeyError")
    ELSE H5SetData(save, <<coord, name>>, src[Append(instrument, name)].value)

PositionAttr(src, save, instrument, coord, name) ==
    IF ~DictHas(src[Append(instrument, name)].attrs, "units") THEN Raise(save, "KeyError")
    ELSE H5SetAttr(save, <<coord, name>>, "units",
                   DictGet(src[Append(instrument, name)].attrs, "units"))

\* lines 565-581: the node of the coordinate with its position
CopyPosition(src, save, instrument, coord) ==
    Bind(Bind(Bind(Bind(Bind(Bind(
        H5CreateGroup(save, <<coord>>),
        LAMBDA s : SavePosition(src, s, instrument, coord, D_x_pos)),
        LAMBDA s : SavePosition(src, s, instrument, coord, D_y_pos)),
        LAMBDA s : PositionAttr(src, s, instrument, coord, D_x_pos)),
        LAMBDA s : PositionAttr(src, s, instrument, coord, D_y_pos)),
        LAMBDA s : H5SetAttr(s, <<coord, D_x_pos>>, "HT_type", <<"p", "o", "s", "i", "t", "i", "o", "n">>)),
        LAMBDA s : H5SetAttr(s, <<coord, D_y_pos>>, "HT_type", <<"p", "o", "s", "i", "t", "i", "o", "n">>))

\* key.split(" ")[-1]
LastWord(key) == Last(PySplit(key, <<" ">>))

RECURSIVE FillElements(_, _, _, _)
\* lines 589-594: not-a-number for every element of the reference position
FillElements(r, coord, keys, datatype) ==
    IF r.err # "" \/ keys = <<>> THEN r
    ELSE FillElements(
             IF Contains(keys[1], <<"E", "l", "e", "m", "e", "n", "t">>)
             THEN SaveField(r.st, coord, LastWord(keys[1]), NaN,
                            UnitsAndType(<<"a", "t", ".", "%">>, datatype))
             ELSE r,
             coord, Tail(keys), datatype)

RECURSIVE FillCoercivity(_, _, _, _)
\* lines 597-607
FillCoercivity(r, coord, keys, datatype) ==
    IF r.err # "" \/ keys = <<>> THEN r
    ELSE FillCoercivity(
             IF keys[1] = N_coercivity_m0
             THEN SaveField(r.st, coord, keys[1], NaN, UnitsAndType(U_Tesla, datatype))
             ELSE r,
             coord, Tail(keys), datatype)

\* the pairs (phase, saving key) of lines 613-615 and 685-687 in loop order
PhaseFields(src, phases) ==
    [n \in 1..(Len(Members(src, phases)) * Len(saving_result_list)) |->
        [phase |-> Members(src, phases)[((n - 1) \div Len(saving_result_list)) + 1],
         key   |-> saving_result_list[((n - 1) % Len(saving_result_list)) + 1]]]

RECURSIVE FillPhases(_, _, _, _, _)
\* lines 613-618: the datasets are made without attributes
FillPhases(src, r, coord, phases, fields) ==
    IF r.err # "" \/ fields = <<>> THEN r
    ELSE FillPhases(src,
             IF Exists(src, phases \o <<fields[1].phase, fields[1].key>>)
             THEN H5SetData(r.st, <<coord, fields[1].phase \o <<"_">> \o fields[1].key>>, NaN)
             ELSE r,
             coord, phases, Tail(fields))

\* lines 583-619: the coordinate is not among the category's positions
FillMissing(src, save, group, datatype, coord, results) ==
    IF ~Exists(src, results) THEN Raise(save, "KeyError")
    ELSE IF datatype = <<"e", "d", "x">>
    THEN FillElements(Done(save), coord, Members(src, results), datatype)
    ELSE IF datatype = <<"m", "o", "k", "e">>
    THEN FillCoercivity(Done(save), coord, Members(src, results), datatype)
    ELSE IF ~Exists(src, Append(results, G_phases)) THEN Raise(save, "KeyError")
    ELSE FillPhases(src, Done(save), coord, Append(results, G_phases),
                    PhaseFields(src, Append(results, G_phases)))

\* lines 636-656: the KeyError of the try is answered from the reference
EdxReference(src, r, coord, key, datatype, reference) ==
    IF r.err # "" THEN r
    ELSE IF ~Exists(src, reference) THEN Raise(r.st, "KeyError")
    ELSE IF ~Exists(src, reference \o <<key, N_AtomPercent>>) THEN r
    ELSE IF ~DictHas(src[reference \o <<key, N_AtomPercent>>].attrs, "units")
    THEN Bind(H5SetData(r.st, <<coord, LastWord(key)>>, NaN),
              LAMBDA s : Raise(s, "KeyError"))
    ELSE SaveField(r.st, coord, LastWord(key), NaN,
                   UnitsAndType(DictGet(src[reference \o <<key, N_AtomPercent>>].attrs, "units"),
                                datatype))

\* lines 626-656: one element of the results at the coordinate
EdxCopy(src, save, coord, key, datatype, atom_percent, reference) ==
    IF ~Contains(key, <<"E", "l", "e", "m", "e", "n", "t">>) THEN Done(save)
    ELSE IF ~Exists(src, atom_percent)
    THEN EdxReference(src, Done(save), coord, key, datatype, reference)
    ELSE IF ~DictHas(src[atom_percent].attrs, "units")
    THEN EdxReference(src, H5SetData(save, <<coord, LastWord(key)>>, src[atom_percent].value),
                      coord, key, datatype, reference)
    ELSE SaveField(save, coord, LastWord(key), src[atom_percent].value,
                   UnitsAndType(DictGet(src[atom_percent].attrs, "units"), datatype))

RECURSIVE EdxCopies(_, _, _, _, _, _, _)
\* line 625: for key in results.keys()
EdxCopies(src, r, group, coord, keys, datatype, results) ==
    IF r.err # "" \/ keys = <<>> THEN r
    ELSE EdxCopies(src,
             EdxCopy(src, r.st, coord, keys[1], datatype,
                     results \o <<keys[1], N_AtomPercent>>, <<group, N_origin, G_results>>),
             group, coord, Tail(keys), datatype, results)

RECURSIVE MokeCopies(_, _, _, _, _, _)
\* lines 661-676
MokeCopies(src, r, coord, keys, datatype, results) ==
    IF r.err # "" \/ keys = <<>> THEN r
    ELSE MokeCopies(src,
             IF keys[1] # N_coercivity_m0 THEN r
             ELSE IF ~Exists(src, results \o <<keys[1], N_mean>>) THEN Raise(r.st, "KeyError")
             ELSE SaveField(r.st, coord, keys[1], src[results \o <<keys[1], N_mean>>].value,
                            UnitsAndType(U_Tesla, datatype)),
             coord, Tail(keys), datatype, results)

\* str(value).strip().split("+-")[0]
BeforeError(value) == Str(First(PySplit(PyStrip(PyStrOf(value)), <<"+", "-">>)))

\* lines 689-706: a field without units keeps neither units nor HT_type
PhaseCopy(save, coord, name, node, datatype) ==
    IF DictHas(node.attrs, "units")
    THEN SaveField(save, coord, name, BeforeError(node.value),
                   UnitsAndType(DictGet(node.attrs, "units"), datatype))
    ELSE H5SetData(save, <<coord, name>>, BeforeError(node.value))

RECURSIVE PhaseCopies(_, _, _, _, _, _)
\* lines 685-706
PhaseCopies(src, r, coord, phases, fields, datatype) ==
    IF r.err # "" \/ fields = <<>> THEN r
    ELSE PhaseCopies(src,
             IF Exists(src, phases \o <<fields[1].phase, fields[1].key>>)
             THEN PhaseCopy(r.st, coord, fields[1].phase \o <<"_">> \o fields[1].key,
                            src[phases \o <<fields[1].phase, fields[1].key>>], datatype)
             ELSE r,
             coord, phases, Tail(fields), datatype)

\* lines 709-731: one dataset of the measurement
MeasurementCopy(src, r, coord, name, p, attrs) ==
    IF r.err # "" THEN r
    ELSE IF ~Exists(src, p) THEN Raise(r.st, "KeyError")
    ELSE SaveField(r.st, coord, name, src[p].value, attrs)

\* lines 678-731
XrdCopy(src, save, coord, datatype, results, measurement) ==
    IF ~Exists(src, results) \/ ~Exists(src, measurement) THEN Raise(save, "KeyError")
    ELSE MeasurementCopy(src,
             MeasurementCopy(src,
                 MeasurementCopy(src,
                     PhaseCopies(src, Done(save), coord, results, PhaseFields(src, results),
                                 datatype),
                     coord, <<"C", "d", "T", "e", "_", "i", "n", "t", "e", "g", "r", "a", "t", "e", "_", "i", "n", "t", "e", "n", "s", "i", "t", "y">>,
                     measurement \o <<N_CdTe_integrate, <<"i", "n", "t", "e", "n", "s", "i", "t", "y">>>>,
                     UnitsAndType(<<"a", "r", "b", "i", "t", "r", "a", "r", "y", " ", "u", "n", "i", "t", " ", "(", "a", ".", "u", ".", ")">>, datatype)),
                 coord, <<"C", "d", "T", "e", "_", "i", "n", "t", "e", "g", "r", "a", "t", "e", "_", "q">>, measurement \o <<N_CdTe_integrate, <<"q">>>>,
                 UnitsAndType(<<"A", "n", "g", "s", "t", "r", "o", "m", "^", "-", "1", " ", "(", "A", "^", "-", "1", ")">>, datatype)),
             coord, N_CdTe, Append(measurement, N_CdTe),
             <<[k |-> "HT_type", v |-> datatype]>>)

\* lines 621-731: the coordinate is among the category's positions
CopyResults(src, save, group, datatype, coord, results) ==
    IF datatype = <<"x", "r", "d">>
    THEN XrdCopy(src, save, coord, datatype, Append(results, G_phases),
                 <<group, coord, G_measurement>>)
    ELSE IF ~Exists(src, results) THEN Raise(save, "KeyError")
    ELSE IF datatype = <<"e", "d", "x">>
    THEN EdxCopies(src, Done(save), group, coord, Members(src, results), datatype, results)
    ELSE MokeCopies(src, Done(save), coord, Members(src, results), datatype, results)

\* lines 583-731 on the node of the coordinate
FillOrCopy(src, r, group, datatype, coord) ==
    IF r.err # "" THEN r
    ELSE IF ~Exists(src, <<group, coord>>)
    THEN FillMissing(src, r.st, group, datatype, coord, <<group, N_origin, G_results>>)
    ELSE CopyResults(src, r.st, group, datatype, coord, <<group, coord, G_results>>)

\* lines 557-731: a coordinate that has no node yet and no instrument in
\* this category is passed over
SimplifyCoord(src, save, group, datatype, coord) ==
    IF Exists(save, <<coord>>) THEN FillOrCopy(src, Done(save), group, datatype, coord)
    ELSE IF ~Exists(src, <<group, coord, G_instrument>>) THEN Done(save)
    ELSE FillOrCopy(src, CopyPosition(src, save, <<group, coord, G_instrument>>, coord),
                    group, datatype, coord)

RECURSIVE SimplifyCoords(_, _, _, _, _, _)
\* line 555: for coord in coord_list, here from coord_list[lo] to
\* coord_list[hi], the first half of them before the second
SimplifyCoords(src, r, group, datatype, lo, hi) ==
    IF r.err # "" \/ lo > hi THEN r
    ELSE IF lo = hi THEN SimplifyCoord(src, r.st, group, datatype, coord_list[lo])
    ELSE SimplifyCoords(src,
                        SimplifyCoords(src, r, group, datatype, lo, (lo + hi) \div 2),
                        group, datatype, ((lo + hi) \div 2) + 1, hi)

RECURSIVE SimplifyGroups(_, _, _)
\* lines 547-553: the top-level groups with an HT_type of the group list
SimplifyGroups(src, r, groups) ==
    IF r.err # "" \/ groups = <<>> THEN r
    ELSE SimplifyGroups(src,
             IF ~DictHas(src[<<groups[1]>>].attrs, "HT_type") THEN r
             ELSE IF DictGet(src[<<groups[1]>>].attrs, "HT_type") \notin group_list THEN r
             ELSE SimplifyCoords(src, r, groups[1],
                                 DictGet(src[<<groups[1]>>].attrs, "HT_type"),
                                 1, Len(coord_list)),
             Tail(groups))

\* h5py.File(hdf5_save_file, "w") if it truncated a file that is open
OpenForWriteTruncating(files, hdf5_file, hdf5_save_file) ==
    Done([files EXCEPT ![hdf5_save_file] = EmptyStore])

\* line 545: h5py.File(hdf5_save_file, "w") while hdf5_file is open for
\* reading; a file that is open is not truncated, the call raises OSError
OpenForWrite(files, hdf5_file, hdf5_save_file) ==
    IF hdf5_save_file = hdf5_file THEN Raise(files, "OSError")
    ELSE Done([files EXCEPT ![hdf5_save_file] = EmptyStore])

\* the files once the with block is left
SavedAs(files, hdf5_save_file, r) ==
    [st |-> [files EXCEPT ![hdf5_save_file] = r.st], err |-> r.err]

\* lines 537-731
create_simplified_dataset(files, hdf5_file, hdf5_save_file) ==
    Bind(OpenForWrite(files, hdf5_file, hdf5_save_file),
         LAMBDA fs : SavedAs(fs, hdf5_save_file,
                             SimplifyGroups(fs[hdf5_file], Done(fs[hdf5_save_file]),
                                            Members(fs[hdf5_file], <<>>))))

\* ------------------------------------------ the query calls, as called

NoQueryCall == [called |-> FALSE, op |-> "", args |-> <<>>, ret |-> NotFound("")]

\* the positions asked for: scanned ones, one a little off the centre on
\* either side, one on no scan
PathPositions == {<<0, 0>>, <<4, 0>>, <<-4, 0>>, <<3000, 3000>>, <<1000, 1000>>}

PathDataTypes == {N_EDX, <<"e", "d", "x">>, N_MOKE, <<"X", "P", "S">>}

\* measurement_type, x_pos and y_pos: all left out, the position left out,
\* or all given
PathArgs ==
    {<<NoText, NoText, NoText>>, <<Text(N_Results), NoText, NoText>>}
    \cup {<<Text(m), Num(p[1]), Num(p[2])>> :
             m \in {N_Results, N_Measurement, <<"I", "m", "a", "g", "e">>}, p \in PathPositions}

\* make_group_path(hdf5_file, data_type, measurement_type, x_pos, y_pos)
MakeGroupPath ==
    /\ ~query_call.called
    /\ \E data_type \in PathDataTypes, a \in PathArgs :
          query_call' = [called |-> TRUE, op |-> "make_group_path",
                         args |-> <<data_type>> \o a,
                         ret |-> make_group_path(store, data_type, a[1], a[2], a[3])]
    /\ UNCHANGED <<geom_vars, visit_vars, ingest_vars, grid_vars, simplified_call, save_store>>

\* get_position_units(hdf5_file, data_type)
GetPositionUnits ==
    /\ ~query_call.called
    /\ \E data_type \in PathDataTypes :
          query_call' = [called |-> TRUE, op |-> "get_position_units",
                         args |-> <<data_type>>,
                         ret |-> get_position_units(store, data_type)]
    /\ UNCHANGED <<geom_vars, visit_vars, ingest_vars, grid_vars, simplified_call, save_store>>

F_full == "full.h5"
F_simple == "simple.h5"

NoSimplifiedCall == [called |-> FALSE, hdf5_save_file |-> "", err |-> ""]

\* create_simplified_dataset(hdf5_file, hdf5_save_file): the store is the
\* file full.h5, the other file is written anew or is the same file
CreateSimplifiedDataset ==
    /\ ~simplified_call.called
    /\ \E hdf5_save_file \in {F_full, F_simple} :
          /\ store' = create_simplified_dataset((F_full :> store) @@ (F_simple :> save_store),
                                                F_full, hdf5_save_file).st[F_full]
          /\ save_store' = create_simplified_dataset((F_full :> store) @@ (F_simple :> save_store),
                                                     F_full, hdf5_save_file).st[F_simple]
          /\ simplified_call' =
                [called |-> TRUE, hdf5_save_file |-> hdf5_save_file,
                 err |-> create_simplified_dataset((F_full :> store) @@ (F_simple :> save_store),
                                                   F_full, hdf5_save_file).err]
    /\ UNCHANGED <<geom_vars, visit_vars, energy_call, ingest, ingest_count, positions_call,
                   grid_vars, query_call>>

\* <root>/(x,y)/results/coercivity_m0/mean of a MOKE scan
WithCoercivity(st, x, y) ==
    WithResult(st, N_MOKE, x, y, <<N_coercivity_m0>>, N_mean, Num((100 + y) * Scale), <<>>)

\* <root>/(x,y)/measurement/{CdTe_integrate/{intensity, q}, CdTe} of an XRD scan
WithCdTe(st, x, y) ==
    H5SetData(
        H5SetData(
            H5SetData(
                H5CreateGroup(st, <<N_XRD, PositionGroup(x * Scale, y * Scale), G_measurement,
                                    N_CdTe_integrate>>).st,
                <<N_XRD, PositionGroup(x * Scale, y * Scale), G_measurement, N_CdTe_integrate,
                  <<"i", "n", "t", "e", "n", "s", "i", "t", "y">>>>, Arr(<<1, 2>>)).st,
            <<N_XRD, PositionGroup(x * Scale, y * Scale), G_measurement, N_CdTe_integrate,
              <<"q">>>>, Arr(<<3, 4>>)).st,
        <<N_XRD, PositionGroup(x * Scale, y * Scale), G_measurement, N_CdTe>>,
        Arr(<<5, 6>>)).st

RECURSIVE WithExtras(_, _, _)
\* what create_simplified_dataset reads besides, at each MOKE and XRD scan
WithExtras(st, root, positions) ==
    IF positions = <<>> \/ ~Exists(st, <<root>>) THEN st
    ELSE WithExtras(IF root = N_MOKE
                    THEN WithCoercivity(st, positions[1][1], positions[1][2])
                    ELSE WithCdTe(st, positions[1][1], positions[1][2]),
                    root, Tail(positions))

\* a store with the three categories scanned at the positions E, M and X
FullStore(E, M, X) ==
    WithExtras(
        WithExtras(
            WithCategory(WithCategory(WithCategory(EmptyStore, N_EDX, E), N_MOKE, M), N_XRD, X),
            N_MOKE, SortPairs(M)),
        N_XRD, SortPairs(X))

\* the stores create_simplified_dataset is called on: EDX alone, with and
\* without XRD scans that lack the CdTe data, and the three categories, each
\* scanned at the centre and possibly at one other position; MOKE may lack
\* the reference position or hold no scan at all
SimplifyStores ==
    {WithCategory(EmptyStore, N_EDX, {<<0, 0>>, <<40, 0>>}),
     WithCategory(WithCategory(EmptyStore, N_EDX, {<<0, 0>>}), N_XRD, {<<0, 0>>})}
    \cup {FullStore(E, M, X) :
             E \in {{<<0, 0>>}, {<<0, 0>>, <<30, 30>>}, {<<0, 0>>, <<40, 0>>}},
             M \in {{}, {<<0, 0>>}, {<<0, 0>>, <<30, 30>>}, {<<40, 0>>}, {<<0, 0>>, <<40, 0>>}},
             X \in {{}, {<<0, 0>>}, {<<0, 0>>, <<30, 30>>}}}

\* a store as write_edx_to_hdf5 leaves it: /entry has no HT_type
EntryStore == H5CreateGroup(EmptyStore, <<G_entry, G_edx>>).st

\* an EDX category with the two groups that hold no scan, and one scan
\* taken 0.04 mm off an earlier one
MarkerStore ==
    LET a == WithCategory(EmptyStore, N_EDX, {<<0, 5>>, <<5, 0>>, <<10, 0>>})
        b == H5CreateGroup(a, <<N_EDX, N_scan_parameters>>).st
        c == H5CreateGroup(b, <<N_EDX, N_alignment_scans>>).st
        inst == <<N_EDX, <<"(", "5", ".", "0", "4", ",", "0", ".", "0", ")">>, G_instrument>>
        d == H5CreateGroup(c, inst).st
        e == H5SetData(d, Append(inst, D_x_pos), Num(5 * Scale + 4)).st
    IN  H5SetData(e, Append(inst, D_y_pos), Num(0)).st

\* the same with a group of notes that has no instrument
NotesStore == H5CreateGroup(MarkerStore, <<N_EDX, <<"n", "o", "t", "e", "s">>>>).st

PathStores ==
    {EmptyStore, EntryStore, LegacyStore, CentreAndEdge, MarkerStore, NotesStore,
     WithCategory(EmptyStore, N_EDX, {<<0, 0>>, <<40, 0>>}),
     FullStore({<<0, 0>>, <<30, 30>>}, {<<0, 0>>}, {<<0, 0>>}),
     FullStore({<<0, 0>>}, {<<0, 0>>, <<40, 0>>}, {})}

\* ------------------------------------------------------ specifications

NoScanArg == [kind |-> "none", text |-> <<>>]

DefaultWaferCfg == CHOOSE c \in WaferConfigs : c.defaults

InitScan ==
    /\ scan_arg = NoScanArg
    /\ scan_ret = ScanRaise("none")

InitGeom ==
    /\ wafer_cfg = DefaultWaferCfg
    /\ wafer_calls = <<>>

\* a new process: the default dict of visit_items is the {} of its def
InitVisit ==
    /\ default_edx_dict = EmptyDict
    /\ visit_item = Leaf(<<>>, <<>>)
    /\ visit_ret = Visited(EmptyDict)
    /\ visit_explicit = FALSE
    /\ visit_calls = 0

NoIngest == [called |-> FALSE, file |-> SpxFile(Path_none, FALSE, ShortDoc), mode |-> "a", err |-> "", scan |-> <<>>, pos |-> <<>>,
             writes |-> <<>>]

InitEnergy ==
    energy_call = [called |-> FALSE, edx_dict |-> EmptyDict, channels |-> <<>>,
                   ret |-> [err |-> "", energy |-> <<>>]]

InitIngest ==
    /\ InitEnergy
    /\ store = EmptyStore
    /\ ingest = NoIngest
    /\ ingest_count = 0
    /\ positions_call = NoPositionsCall

InitGrid ==
    /\ full_call = NoFullCall
    /\ measurement_call = NoMeasurementCall
    /\ query_call = NoQueryCall
    /\ simplified_call = NoSimplifiedCall
    /\ save_store = EmptyStore

Init == InitScan /\ InitGeom /\ InitVisit /\ InitIngest /\ InitGrid

NextScan == GetScanNumbers

SpecScan == Init /\ [][NextScan]_vars

NextGeom == GetWaferPositions

\* the caller's step and start arguments are fixed before the calls
InitGeomAny ==
    /\ InitScan
    /\ InitVisit
    /\ InitIngest
    /\ InitGrid
    /\ wafer_cfg \in WaferConfigs
    /\ wafer_calls = <<>>

SpecGeom == InitGeomAny /\ [][NextGeom]_vars

NextVisit == VisitItemsDefault \/ VisitItemsExplicit

SpecVisit == Init /\ [][NextVisit]_vars

NextEnergy == MakeEnergyDataset

SpecEnergy == Init /\ [][NextEnergy]_vars

\* the store file does not exist yet, or was written by the other compilers
InitIngestAny ==
    /\ InitScan
    /\ InitGeom
    /\ InitVisit
    /\ InitEnergy
    /\ InitGrid
    /\ store \in InitialStores
    /\ ingest = NoIngest
    /\ ingest_count = 0
    /\ positions_call = NoPositionsCall

NextIngest == Ingest \/ GetAllPositions

SpecIngest == InitIngestAny /\ [][NextIngest]_vars

\* a store in the layout of the readers, written before the calls
InitGridAny ==
    /\ InitScan
    /\ InitGeom
    /\ InitVisit
    /\ InitEnergy
    /\ InitGrid
    /\ store \in GridStores \cup RaggedStores \cup UnitStores
    /\ ingest = NoIngest
    /\ ingest_count = 0
    /\ positions_call = NoPositionsCall

NextGrid == GetFullDataset \/ GetMeasurementData

SpecGrid == InitGridAny /\ [][NextGrid]_vars

\* a store of any of the layouts the query path may be pointed at
InitPathAny ==
    /\ InitScan
    /\ InitGeom
    /\ InitVisit
    /\ InitEnergy
    /\ InitGrid
    /\ store \in PathStores
    /\ ingest = NoIngest
    /\ ingest_count = 0
    /\ positions_call = NoPositionsCall

NextPath == MakeGroupPath \/ GetPositionUnits \/ GetAllPositions

SpecPath == InitPathAny /\ [][NextPath]_vars

InitSimplifyAny ==
    /\ InitScan
    /\ InitGeom
    /\ InitVisit
    /\ InitEnergy
    /\ InitGrid
    /\ store \in SimplifyStores
    /\ ingest = NoIngest
    /\ ingest_count = 0
    /\ positions_call = NoPositionsCall

NextSimplify == CreateSimplifiedDataset

\* the stores the whole query path is run on
QueryStores ==
    {EntryStore,
     WithCategory(EmptyStore, N_EDX, {<<0, 0>>, <<40, 0>>}),
     FullStore({<<0, 0>>, <<30, 30>>}, {<<0, 0>>}, {<<0, 0>>, <<30, 30>>})}

InitQueryAny ==
    /\ InitScan
    /\ InitGeom
    /\ InitVisit
    /\ InitEnergy
    /\ InitGrid
    /\ store \in QueryStores
    /\ ingest = NoIngest
    /\ ingest_count = 0
    /\ positions_call = NoPositionsCall

\* the calls of the query path made so far
QueryCalls ==
    Cardinality({c \in {<<1, positions_call.called>>, <<2, full_call.called>>,
                        <<3, measurement_call.called>>, <<4, query_call.called>>,
                        <<5, simplified_call.called>>} : c[2]})

NextQuery ==
    /\ QueryCalls < MaxQueryCalls
    /\ \/ MakeGroupPath
       \/ GetAllPositions
       \/ GetPositionUnits
       \/ GetFullDataset
       \/ GetMeasurementData
       \/ CreateSimplifiedDataset

SpecQuery == InitQueryAny /\ [][NextQuery]_vars

SpecSimplify == InitSimplifyAny /\ [][NextSimplify]_vars

\* ------------------------------------------------------------- claims

EndsWith(s, suffix) ==
    /\ Len(suffix) <= Len(s)
    /\ SubSeq(s, Len(s) - Len(suffix) + 1, Len(s)) = suffix

\* Position of the last "(" of s, 0 when there is none
LastOpen(s) ==
    IF \E i \in 1..Len(s) : s[i] = "("
    THEN CHOOSE i \in 1..Len(s) : s[i] = "(" /\ \A j \in (i + 1)..Len(s) : s[j] # "("
    ELSE 0

\* the path ends with "(<int>,<int>)" followed directly by ".spx"
HasPairBeforeExt(text) ==
    /\ EndsWith(text, <<")">> \o SpxExt)
    /\ LET body == SubSeq(text, 1, Len(text) - Len(SpxExt) - 1)
           open == LastOpen(body)
       IN  /\ open > 0
           /\ LET fields == PySplit(SubSeq(body, open + 1, Len(body)), <<",">>)
              IN  /\ Len(fields) = 2
                  /\ PyInt(fields[1]).ok
                  /\ PyInt(fields[2]).ok

\* the keys an element and its descendants are filed under
OwnKeys(item) ==
    LET all == Iter(item)
    IN  {ParentName(all[i]).name : i \in {j \in 1..Len(all) : ParentName(all[j]).err = ""}}

\* C2: a visit_items call made without an accumulator starts from an empty
\* tree: every key of the tree it returns comes from the element it was
\* given or from a descendant of it, never from an earlier call.
C2_FreshTree ==
    (visit_calls > 0 /\ ~visit_explicit /\ visit_ret.err = "")
        => DictKeys(visit_ret.d) \subseteq OwnKeys(visit_item)

\* the key a child contributes to its parent's mapping
ChildKey(child) ==
    IF child.children = <<>> THEN child.tag ELSE ParentName(child).name

KeptChildren(item) ==
    {i \in 1..Len(item.children) : item.children[i].tag \notin parse_ignore}

\* C3: the mapping the normalizer produces for an element has one entry per
\* child whose tag is not ignored, leaf or not, children with the same key
\* counting once.
C3_EntryPerChild ==
    (visit_calls > 0 /\ visit_ret.err = "")
        => Len(DictGet(visit_ret.d, ParentName(visit_item).name))
             = Cardinality({ChildKey(visit_item.children[i]) : i \in KeptChildren(visit_item)})

\* C4: for every pair of integers (x, y), get_scan_numbers applied to a str or
\* Path whose filename embeds "(x,y)" immediately before the ".spx" extension
\* returns exactly (x, y).
C4_RoundTrip ==
    \A x \in IdxRange, y \in IdxRange :
        (/\ scan_arg.kind \in {"str", "Path"}
         /\ EndsWith(scan_arg.text, PairText(x, y) \o SpxExt))
        => scan_ret = ScanOk(x, y)

\* C5: get_scan_numbers raises (returns no index pair) for every filename that
\* does not hold "(<int>,<int>)" immediately before the extension.
C5_RejectsMalformed ==
    (scan_arg.kind # "none" /\ ~HasPairBeforeExt(scan_arg.text))
        => scan_ret.status # "ok"

\* C6: get_wafer_positions returns ((x_idx-1)*step_x + start_x,
\* (y_idx-1)*step_y + start_y), with step 5 and start -40 when the caller
\* passes none; each coordinate is monotonic in its own index and is the
\* same whatever the other index is.
C6_WaferAffine ==
    /\ \A i \in 1..Len(wafer_calls) :
          LET c == wafer_calls[i]
          IN  /\ c.ret[1] = (c.scan[1] - 1) * wafer_cfg.step_x + wafer_cfg.start_x
              /\ c.ret[2] = (c.scan[2] - 1) * wafer_cfg.step_y + wafer_cfg.start_y
              /\ wafer_cfg.defaults =>
                    c.ret = <<(c.scan[1] - 1) * 5 - 40, (c.scan[2] - 1) * 5 - 40>>
    /\ \A i \in 1..Len(wafer_calls), j \in 1..Len(wafer_calls) :
          LET a == wafer_calls[i]
              b == wafer_calls[j]
          IN  \A ax \in 1..2 :
                LET step == IF ax = 1 THEN wafer_cfg.step_x ELSE wafer_cfg.step_y
                IN  /\ a.scan[ax] = b.scan[ax] => a.ret[ax] = b.ret[ax]
                    /\ (a.scan[ax] <= b.scan[ax] /\ step >= 0) => a.ret[ax] <= b.ret[ax]
                    /\ (a.scan[ax] <= b.scan[ax] /\ step <= 0) => a.ret[ax] >= b.ret[ax]

\* two default-argument calls that differ in both indices, in opposite senses
C6_Witness ==
    /\ wafer_cfg.defaults
    /\ Len(wafer_calls) = 2
    /\ wafer_calls[1].scan[1] < wafer_calls[2].scan[1]
    /\ wafer_calls[1].scan[2] > wafer_calls[2].scan[2]
    /\ wafer_calls[2].ret[1] = -30

\* C8: make_energy_dataset returns floor(len(channels)/2) entries with
\* energy[i] = (i+1)*CalibLin + CalibAbs for i from 0: [2, 4, 6] for 6
\* channels, CalibAbs = 0 and CalibLin = 2, and nothing for fewer than 2
\* channels.
C8_EnergyAxis ==
    (energy_call.called /\ energy_call.ret.err = "")
    => LET energy == energy_call.ret.energy
           n      == Len(energy_call.channels)
           header == DictGet(energy_call.edx_dict, K_Header)
           abs    == PyFloat(DictGet(header, K_CalibAbs).text)
           lin    == PyFloat(DictGet(header, K_CalibLin).text)
       IN  /\ Len(energy) = n \div 2
           /\ n < 2 => energy = <<>>
           /\ (abs.ok /\ lin.ok) =>
                 \A i \in 0..((n \div 2) - 1) : energy[i + 1] = Num((i + 1) * lin.v + abs.v)
           /\ (n = 6 /\ abs.ok /\ lin.ok /\ abs.v = 0 /\ lin.v = 2 * Scale) =>
                 energy = <<Num(200), Num(400), Num(600)>>

\* the scenario of the claim: 6 channels, CalibAbs "0", CalibLin "2"
C8_Witness ==
    /\ energy_call.called
    /\ energy_call.ret.err = ""
    /\ Len(energy_call.channels) = 6
    /\ DictGet(DictGet(energy_call.edx_dict, K_Header), K_CalibAbs) = Text(<<"0">>)
    /\ DictGet(DictGet(energy_call.edx_dict, K_Header), K_CalibLin) = Text(<<"2">>)
    /\ Len(energy_call.ret.energy) = 3

\* C1: after write_edx_to_hdf5 has ingested a scan whose wafer position is
\* (5, -10), get_all_positions for the EDX category on that store returns a
\* list that contains (5.0, -10.0).
C1_IngestDiscovery ==
    (/\ ingest.called /\ ingest.err = "" /\ ingest.pos = <<5, -10>>
     /\ positions_call.called /\ PyLower(positions_call.data_type) = G_edx)
    => /\ positions_call.ret.err = ""
       /\ \E i \in 1..Len(positions_call.ret.positions) :
             positions_call.ret.positions[i] = <<5 * Scale, -10 * Scale>>

UnitsOf(node) ==
    IF DictHas(node.attrs, "units") THEN Text(DictGet(node.attrs, "units")) ELSE NoText

\* the leaf writes of the last ingest that no later write replaced
LastWrites ==
    {i \in 1..Len(ingest.writes) :
        /\ Exists(store, ingest.writes[i].path)
        /\ \A j \in (i + 1)..Len(ingest.writes) :
              ingest.writes[j].path # ingest.writes[i].path}

\* C7: a leaf named AtomPercent or MassPercent is stored as the parsed
\* number times 100 with the units "at.%" respectively "mass.%"; every
\* other leaf is stored unscaled; a leaf for which get_units has nothing
\* gets no units attribute.
C7_PercentAndUnits ==
    \A i \in LastWrites :
        LET w      == ingest.writes[i]
            node   == store[w.path]
            parsed == PyFloat(w.raw.text)
        IN  /\ (w.subkey = N_AtomPercent /\ parsed.ok) =>
                  /\ node.value = Num(parsed.v * 100)
                  /\ UnitsOf(node) = Text(<<"a", "t", ".", "%">>)
            /\ (w.subkey = N_MassPercent /\ parsed.ok) =>
                  /\ node.value = Num(parsed.v * 100)
                  /\ UnitsOf(node) = Text(<<"m", "a", "s", "s", ".", "%">>)
            /\ w.subkey \notin {N_AtomPercent, N_MassPercent} =>
                  node.value = (IF parsed.ok THEN Num(parsed.v) ELSE Str(w.raw.text))
            /\ get_units(w.subkey) = NoText => UnitsOf(node) = NoText

\* an ingest that stored AtomPercent "0.42" as 42.0 and a leaf without units
C7_Witness ==
    /\ ingest.called
    /\ ingest.err = ""
    /\ \E i \in LastWrites :
          /\ ingest.writes[i].subkey = N_AtomPercent
          /\ ingest.writes[i].raw = Text(<<"0", ".", "4", "2">>)
          /\ store[ingest.writes[i].path].value = Num(4200)
    /\ \E i \in LastWrites :
          /\ get_units(ingest.writes[i].subkey) = NoText
          /\ IsStr(store[ingest.writes[i].path].value)

EdgeDistance(e) == Abs(e.x) + Abs(e.y)

At3030(e) == e.x = 30 * Scale /\ e.y = 30 * Scale

C10_NoEdgeWrites ==
    (full_call.called /\ full_call.exclude_wafer_edges) =>
        \A i \in 1..Len(full_call.ret.log) :
            /\ Abs(full_call.ret.log[i].x) # 40 * Scale
            /\ Abs(full_call.ret.log[i].y) # 40 * Scale

\* the spectrum the store holds for a position a measurement loop came to
CountsPath(e) ==
    <<get_current_dataset(e.pass), PositionGroup(e.x, e.y), G_measurement, D_counts>>

\* the counts variable of the dataset that position is scattered into
CountsVar(e) == DictGet(VarsOf(measurement_call.ret, get_current_dataset(e.pass)), D_counts)

\* a position that was read and whose spectrum has another length than the
\* axis the first position gave to the counts variable
Mismatch(e) ==
    /\ ~e.skipped
    /\ Exists(store, CountsPath(e))
    /\ HasVar(VarsOf(measurement_call.ret, get_current_dataset(e.pass)), D_counts)
    /\ Len(store[CountsPath(e)].value.arr) # Len(CountsVar(e).axis.arr)

GridKeyOf(p) ==
    IF p[1] = N_EDX
    THEN (IF Len(p) = 5 /\ p[5] = N_AtomPercent
          THEN p[4] \o <<" ", "C", "o", "m", "p", "o", "s", "i", "t", "i", "o", "n">>
          ELSE <<>>)
    ELSE IF p[1] = N_MOKE
    THEN (IF Len(p) = 4 THEN p[4] ELSE <<>>)
    ELSE IF Len(p) = 6 /\ p[4] = G_phases /\ \E i \in 1..Len(LatticeFields) : p[6] = LatticeFields[i]
    THEN LatticeLabels(p[5])[CHOOSE i \in 1..Len(LatticeFields) : p[6] = LatticeFields[i]]
    ELSE <<>>

\* the fields of the store that supplied the value of an assignment e
SourceFields(e) ==
    {p \in DOMAIN store :
        /\ Len(p) >= 4
        /\ SubSeq(p, 1, 3) = <<e.pass, PositionGroup(e.x, e.y), G_results>>
        /\ store[p].kind = "dataset"
        /\ GridKeyOf(p) = e.key}

\* the first assignment of a value that is not missing to the variable
FirstSupply(log, j) ==
    /\ ~IsNaN(log[j].value)
    /\ \A i \in 1..(j - 1) : log[i].key = log[j].key => IsNaN(log[i].value)

\* C12: in the grid get_full_dataset returns, a variable's units are those
\* the store records at the first position that supplied a value of it that
\* is not missing, and are there whenever that source field carries units.
C12_FirstUnits ==
    (full_call.called /\ full_call.ret.err = "") =>
        \A j \in 1..Len(full_call.ret.log) :
            FirstSupply(full_call.ret.log, j) =>
                \A p \in SourceFields(full_call.ret.log[j]) :
                    UnitsOf(store[p]) # NoText =>
                        DictGet(full_call.ret.vars, full_call.ret.log[j].key).units
                            = UnitsOf(store[p])

\* the categories of the source: its top-level groups with an HT_type of
\* the group list
Categories ==
    {g \in ChildNames(store, <<>>) :
        /\ DictHas(store[<<g>>].attrs, "HT_type")
        /\ DictGet(store[<<g>>].attrs, "HT_type") \in group_list}

\* the fixed fields of a category, as the reference position names them
FixedFields(g) ==
    IF DictGet(store[<<g>>].attrs, "HT_type") = <<"e", "d", "x">>
    THEN {LastWord(k) : k \in {c \in ChildNames(store, <<g, N_origin, G_results>>) :
                                  Contains(c, <<"E", "l", "e", "m", "e", "n", "t">>)}}
    ELSE IF DictGet(store[<<g>>].attrs, "HT_type") = <<"m", "o", "k", "e">>
    THEN {N_coercivity_m0}
    ELSE {q[5] \o <<"_">> \o q[6] :
             q \in {r \in DOMAIN store :
                       /\ Len(r) = 6
                       /\ SubSeq(r, 1, 4) = <<g, N_origin, G_results, G_phases>>
                       /\ \E i \in 1..Len(saving_result_list) : r[6] = saving_result_list[i]}}

\* C13: after create_simplified_dataset, every coordinate of the canonical
\* grid that a category of the source lacks has a node in the canonical
\* store that holds the category's fixed fields as not-a-number.
C13_MissingFilled ==
    (/\ simplified_call.called
     /\ simplified_call.err = ""
     /\ simplified_call.hdf5_save_file = F_simple) =>
        \A g \in Categories :
            \A n \in 1..Len(coord_list) :
                ~Exists(store, <<g, coord_list[n]>>) =>
                    /\ Exists(save_store, <<coord_list[n]>>)
                    /\ \A f \in FixedFields(g) :
                          /\ Exists(save_store, <<coord_list[n], f>>)
                          /\ IsNaN(save_store[<<coord_list[n], f>>].value)

\* C14: every field of a coordinate node that create_simplified_dataset
\* wrote, a value or the not-a-number fill, has a units and an HT_type
\* attribute.
C14_AttributePair ==
    (simplified_call.called /\ simplified_call.hdf5_save_file = F_simple) =>
        \A p \in DOMAIN save_store :
            (Len(p) = 2 /\ save_store[p].kind = "dataset") =>
                /\ DictHas(save_store[p].attrs, "units")
                /\ DictHas(save_store[p].attrs, "HT_type")

\* C15: no call of the query path changes the source store.
C15_SourceUnchanged == [][store' = store]_vars

\* create_simplified_dataset has written the canonical store from a source
\* that holds scans, and the source still holds them
C15_Witness ==
    /\ simplified_call.called
    /\ simplified_call.err = ""
    /\ Exists(save_store, <<N_origin, D_x_pos>>)
    /\ Exists(store, <<N_EDX, N_origin>>)

\* the top-level groups whose HT_type is the lower-cased data type
Matching(data_type) ==
    {g \in ChildNames(store, <<>>) :
        /\ DictHas(store[<<g>>].attrs, "HT_type")
        /\ DictGet(store[<<g>>].attrs, "HT_type") = PyLower(data_type)}

\* the group of the rounded position below a root, and the subgroup asked for
AskedGroup(g, a) == <<g, PositionGroup(Round1(a[3].num), Round1(a[4].num))>>
AskedPath(g, a) == Append(AskedGroup(g, a), PyLower(a[2].text))

AllGiven(a) == a[2] # NoText /\ a[3] # NoText /\ a[4] # NoText

\* C16: make_group_path raises, and returns no path, when no top-level group
\* has the HT_type asked for, and when a measurement type and a position are
\* given and the store lacks the position group or its subgroup; a path it
\* returns exists in the store.
C16_PathOrError ==
    (query_call.called /\ query_call.op = "make_group_path") =>
        LET a == query_call.args
            r == query_call.ret
        IN  /\ Matching(a[1]) = {} => (r.err # "" /\ r.path = <<>>)
            /\ (AllGiven(a) /\ \A g \in Matching(a[1]) :
                                  ~Exists(store, AskedGroup(g, a))
                                  \/ ~Exists(store, AskedPath(g, a)))
                   => (r.err # "" /\ r.path = <<>>)
            /\ r.err = "" => (r.path # <<>> /\ Exists(store, r.path))

\* a path of three names was returned for a position asked a little off the
\* scan it rounds to
C16_Witness ==
    /\ query_call.called
    /\ query_call.op = "make_group_path"
    /\ query_call.ret.err = ""
    /\ Len(query_call.ret.path) = 3
    /\ query_call.args[3] = Num(4)

\* the subgroups of the category root that hold a scan
ScanGroups(root) == ChildNames(store, root) \ {N_scan_parameters, N_alignment_scans}

\* the pair read below one subgroup, each coordinate rounded to one decimal
PairRead(root, g) ==
    <<Round1(store[root \o <<g, G_instrument, D_x_pos>>].value.num),
      Round1(store[root \o <<g, G_instrument, D_y_pos>>].value.num)>>

N_AbsError == <<"A", "b", "s", "E", "r", "r", "o", "r">>

\* the leaf writes of the last ingest that came from an ExtResults item
ExtWrites == {i \in 1..Len(ingest.writes) : ingest.writes[i].subkey = N_AbsError}

\* the subgroup a leaf was written to
SubgroupOf(i) == SubSeq(ingest.writes[i].path, 1, Len(ingest.writes[i].path) - 1)

\* C18: the fields of an ExtResults item are merged into the results
\* subgroup named by its Atom field, and once the item has been processed
\* that subgroup holds the merged fields and no Atom field.
C18_AtomRemoved ==
    (ingest.called /\ ingest.err = "") =>
        \A i \in ExtWrites :
            /\ SubgroupOf(i)[4] = G_results
            /\ Exists(store, ingest.writes[i].path)
            /\ \E j \in 1..Len(ingest.writes) :
                  ingest.writes[j].subkey = N_AtomPercent /\ SubgroupOf(j) = SubgroupOf(i)
            /\ ~Exists(store, Append(SubgroupOf(i), T_Atom))

\* the scan subtrees of the store
ScanTrees == {p \in DOMAIN store : Len(p) = 3 /\ SubSeq(p, 1, 2) = <<G_entry, G_edx>>}

HasUnits(p) == Exists(store, p) /\ DictHas(store[p].attrs, "units")

\* C19: a scan subtree that has measurement/counts also has the instrument
\* positions with their units, the results and measurement/energy with their
\* units, so that a subtree left by a failed ingest has no measurement/counts.
C19_CountsMeansComplete ==
    \A p \in ScanTrees :
        Exists(store, p \o <<G_measurement, D_counts>>) =>
            /\ HasUnits(p \o <<G_instrument, D_x_pos>>)
            /\ HasUnits(p \o <<G_instrument, D_y_pos>>)
            /\ Exists(store, Append(p, G_results))
            /\ HasUnits(p \o <<G_measurement, D_counts>>)
            /\ HasUnits(p \o <<G_measurement, D_energy>>)

\* the members of the scan subtrees of a store
InScanTrees(st) ==
    {q \in DOMAIN st : Len(q) >= 3 /\ SubSeq(q, 1, 2) = <<G_entry, G_edx>>}

\* C20: an ingest in append mode leaves every scan subtree written before as
\* it was; when it succeeds, all it adds is the subtree of its own scan,
\* which was not there before; when the subtree of its scan is there
\* already, it fails and the store is as before.
C20_AppendOnly ==
    [][(ingest_count' = ingest_count + 1 /\ ingest'.mode = "a") =>
          /\ \A q \in InScanTrees(store) : q \in DOMAIN store' /\ store'[q] = store[q]
          /\ ingest'.err = "" =>
                /\ ~Exists(store, ScanGroup(ingest'.scan))
                /\ Exists(store', ScanGroup(ingest'.scan))
                /\ \A q \in InScanTrees(store') \ InScanTrees(store) :
                      IsPrefix(ScanGroup(ingest'.scan), q)
          /\ (ingest'.scan # <<>> /\ Exists(store, ScanGroup(ingest'.scan))) =>
                (ingest'.err # "" /\ store' = store)]_vars

\* a second ingest added its subtree next to the one of the first
C20_Witness ==
    /\ ingest_count = 2
    /\ ingest.mode = "a"
    /\ ingest.err = ""
    /\ Cardinality(ScanTrees) = 2

\* a file name without the "(x,y)" of the scan
BadName(f) == \A i \in 1..Len(f.path.text) : f.path.text[i] # "("

\* text that is no XML, or a document without the spectrum element
BadXml(f) == ~f.wellformed \/ Len(f.doc.children) < 2

\* a Result or ExtResults child of the spectrum without an Atom below it
NoAtom(f) ==
    /\ ~BadXml(f)
    /\ \E k \in 1..Len(f.doc.children[2].children) :
          LET item == f.doc.children[2].children[k]
          IN  /\ item.tag \in {T_Result, T_ExtResults}
              /\ \A i \in 1..Len(Iter(item)) : Iter(item)[i].tag # T_Atom

\* the dict read from the file, on top of the default dict dflt, lacks
\* CalibAbs or CalibLin
CalibMissing(f, dflt) ==
    LET rd == read_data_from_spx(f, dflt)
    IN  /\ rd.err = ""
        /\ \/ ~DictHas(rd.edx_dict, K_Header)
           \/ ~DictHas(DictGet(rd.edx_dict, K_Header), K_CalibAbs)
           \/ ~DictHas(DictGet(rd.edx_dict, K_Header), K_CalibLin)

\* C21: an ingest of a file with a malformed name, with malformed XML or
\* with a result node without an Atom, and an ingest whose dict lacks
\* CalibAbs or CalibLin, raises and leaves the store exactly as it was,
\* whatever the mode.
C21_FailsBeforeOpen ==
    [][(ingest_count' = ingest_count + 1) =>
          /\ (BadName(ingest'.file) \/ BadXml(ingest'.file) \/ NoAtom(ingest'.file)) =>
                (ingest'.err # "" /\ store' = store)
          /\ (~BadName(ingest'.file) /\ CalibMissing(ingest'.file, default_edx_dict)) =>
                (ingest'.err = "KeyError" /\ store' = store)]_vars

\* an ingest in mode "w" of a file that is no XML raised, and the subtree
\* of the ingest before it is still in the store
C21_Witness ==
    /\ ingest_count = 2
    /\ ingest.mode = "w"
    /\ BadXml(ingest.file)
    /\ ingest.err = "ParseError"
    /\ Exists(store, ScanGroup(<<9, 9>>) \o <<G_measurement, D_energy>>)

====
